---- MODULE Spec2Model ----
(***************************************************************************)
(* Heart-rate time series -> calorie integration pipeline of               *)
(* Fit-File-to-Calories-Burnt (src/src/services/fit_processor.py and the   *)
(* validators, models and formula functions it calls).                     *)
(*                                                                         *)
(* Numbers.  Python floats are modelled by exact fixed-point integers:     *)
(*   - an instant (datetime) is an integer number of ticks, one tick being *)
(*     a fifth of a second (TicksPerMinute ticks to the minute);           *)
(*   - a duration in minutes is kept in ticks (minutes * TicksPerMinute);  *)
(*   - the heart rate handed to the Keytel formula is kept in half beats   *)
(*     per minute (hr2 = 2 * hr), so that the mean of two integer heart    *)
(*     rates is exact;                                                     *)
(*   - a kcal/min value is an integer numerator over KcalDen, a calorie    *)
(*     amount an integer numerator over KcalDen * TicksPerMinute;          *)
(*   - a mean is the pair [num, den].                                      *)
(* None is the empty sequence <<>>, a present value v is <<v>>.            *)
(* A string that the code normalises is a sequence of characters.          *)
(***************************************************************************)
EXTENDS Integers, Sequences, FiniteSets, TLC

VARIABLES
    \* integrate_calories_over_intervals
    pc,                   \* position in the function
    heart_rate_data,      \* argument: sequence of [ts, hr]
    weight, age, gender,  \* arguments as passed by the caller
    validated_inputs,     \* dict returned by validate_calculation_inputs
    validated_hr_data,    \* list returned by validate_heart_rate_data
    i,                    \* loop index (1-based position of curr)
    total_calories,
    intervals_processed,
    outcome,              \* "pending", "returned" or the exception raised
    result,               \* <<>> or <<CalorieData>>
    \* extract_heart_rate_data
    x_pc,
    fitfile,              \* argument: the record source
    x_records,            \* records still to be read
    x_heart_rate_data,    \* list being built
    x_outcome,
    x_result,             \* <<>> (nothing returned) or <<list>>
    \* one call of a pure function (validators, quality audit, formulas)
    f_pc,
    f_args,               \* the arguments, a record named as the parameters
    f_ret,                \* <<>> before the call, then [exc, value]
    \* process_fit_files_option
    b_pc,
    config,               \* the profile of the configuration, or the default
    fit_files,            \* list returned by glob
    b_index,              \* files the for loop has taken
    processed_count,
    error_count,
    processing_log        \* paths of the "Processing file:" log lines

ivars == <<pc, heart_rate_data, weight, age, gender, validated_inputs,
           validated_hr_data, i, total_calories, intervals_processed,
           outcome, result>>
xvars == <<x_pc, fitfile, x_records, x_heart_rate_data, x_outcome, x_result>>
fvars == <<f_pc, f_args, f_ret>>
bvars == <<b_pc, config, fit_files, b_index, processed_count, error_count,
           processing_log>>
vars == <<ivars, xvars, fvars, bvars>>

IdleBatch ==
    /\ b_pc = "off"
    /\ config = <<>>
    /\ fit_files = <<>>
    /\ b_index = 0
    /\ processed_count = 0
    /\ error_count = 0
    /\ processing_log = <<>>

----------------------------------------------------------------------------
(* Bounds and units *)

MaxLen == 3

MaxRecords == 4

\* five ticks to the second
TicksPerMinute == 60 * 5

\* instants 0.4 s, 0.6 s, 1 s and one minute apart
Timestamps == {0, 2, 5, 305}

HeartRates == {0, 50, 250, 251}

Str_male == <<"m", "a", "l", "e">>

Str_female == <<"f", "e", "m", "a", "l", "e">>

Str_FEMALE_padded == <<" ", "F", "E", "M", "A", "L", "E", " ">>

Str_other == <<"o", "t", "h", "e", "r">>

\* the profiles a caller passes: two valid ones (on and off the upper
\* limits), and one for each way a field can be out of range
Profiles ==
    { [weight |-> 70,  age |-> 30,  gender |-> Str_male],
      [weight |-> 500, age |-> 130, gender |-> Str_FEMALE_padded],
      [weight |-> 0,   age |-> 30,  gender |-> Str_male],
      [weight |-> 501, age |-> 30,  gender |-> Str_male],
      [weight |-> 70,  age |-> 0,   gender |-> Str_female],
      [weight |-> 70,  age |-> 131, gender |-> Str_female],
      [weight |-> 70,  age |-> 30,  gender |-> Str_other] }

Samples == [ts : Timestamps, hr : HeartRates]

SeqsUpTo(S, n) == UNION { [1..k -> S] : k \in 0..n }

----------------------------------------------------------------------------
(* Strings *)

Whitespace == {" ", "\t", "\n"}

lower_char(c) ==
    CASE c = "M" -> "m" [] c = "A" -> "a" [] c = "L" -> "l" [] c = "E" -> "e"
      [] c = "F" -> "f" [] c = "O" -> "o" [] c = "T" -> "t" [] c = "H" -> "h"
      [] c = "R" -> "r" [] OTHER -> c

lower(s) == [k \in 1..Len(s) |-> lower_char(s[k])]

RECURSIVE lstrip(_)
lstrip(s) ==
    IF s # <<>> /\ Head(s) \in Whitespace THEN lstrip(Tail(s)) ELSE s

RECURSIVE rstrip(_)
rstrip(s) ==
    IF s # <<>> /\ s[Len(s)] \in Whitespace
    THEN rstrip(SubSeq(s, 1, Len(s) - 1)) ELSE s

strip(s) == rstrip(lstrip(s))

----------------------------------------------------------------------------
(* Formula Engine: src/src/core/utils.py *)

\* coefficients in units of 1/10000
MALE_CONSTANTS ==
    [base |-> -550969, hr_coef |-> 6309, weight_coef |-> 1988,
     age_coef |-> 2017, conversion |-> 41840]

FEMALE_CONSTANTS ==
    [base |-> -204022, hr_coef |-> 4472, weight_coef |-> -1263,
     age_coef |-> 740, conversion |-> 41840]

\* denominator of a kcal/min numerator: the conversion factor, doubled for
\* the half-beat unit of hr2
KcalDen == 2 * MALE_CONSTANTS.conversion

\* numerator of kcal/min over KcalDen; hr2 is the heart rate in half beats
calculate_kcal_per_min(hr2, w, a, g) ==
    LET constants == IF lower(g) = Str_female THEN FEMALE_CONSTANTS
                     ELSE MALE_CONSTANTS
    IN  2 * constants.base + constants.hr_coef * hr2
          + 2 * constants.weight_coef * w + 2 * constants.age_coef * a

calories_burned_no_duration(hr2, duration_ticks, w, a, g) ==
    calculate_kcal_per_min(hr2, w, a, g)

\* numerator of the calories over KcalDen * TicksPerMinute (three minute-long
\* intervals stay within the 32-bit integers of TLC)
calories_burned(hr2, duration_ticks, w, a, g) ==
    calculate_kcal_per_min(hr2, w, a, g) * duration_ticks

\* Exact fractions [num, den] (den # 0) stand for the floats of the inverse
\* formulas; an integer c is the fraction [c, 1].
RECURSIVE gcd(_, _)
gcd(a, b) == IF b = 0 THEN a ELSE gcd(b, a % b)

\* c * r for an integer c > 0, cancelling the common factor of c and r.den
rat_mul_int(c, r) ==
    LET g == gcd(c, IF r.den < 0 THEN 0 - r.den ELSE r.den)
    IN  [num |-> (c \div g) * r.num, den |-> r.den \div g]

rat_sub(r1, r2) ==
    [num |-> r1.num * r2.den - r2.num * r1.den, den |-> r1.den * r2.den]

rat_div_int(r, c) == [num |-> r.num, den |-> r.den * c]

rat_eq(r1, r2) == r1.num * r2.den = r2.num * r1.den

\* a heart rate given in half beats, in beats
half_beats(hr2) == [num |-> hr2, den |-> 2]

whole(c) == [num |-> c, den |-> 1]

\* The inverse formulas: kcal_per_min is a fraction of kcal/min, the heart
\* rate argument is in half beats (as for calculate_kcal_per_min), the
\* coefficients are in units of 1/10000 throughout, so the results are
\* fractions of beats per minute, kilograms and years.
calculate_heart_rate_male_only(kcal_per_min, w, a, g) ==
    LET constants == MALE_CONSTANTS
    IN  rat_div_int(
            rat_sub(rat_sub(rat_sub(
                rat_mul_int(constants.conversion, kcal_per_min),
                whole(constants.base)),
                whole(constants.weight_coef * w)),
                whole(constants.age_coef * a)),
            constants.hr_coef)

calculate_heart_rate(kcal_per_min, w, a, g) ==
    LET constants == IF lower(g) = Str_female THEN FEMALE_CONSTANTS
                     ELSE MALE_CONSTANTS
    IN  rat_div_int(
            rat_sub(rat_sub(rat_sub(
                rat_mul_int(constants.conversion, kcal_per_min),
                whole(constants.base)),
                whole(constants.weight_coef * w)),
                whole(constants.age_coef * a)),
            constants.hr_coef)

calculate_weight(kcal_per_min, hr2, a, g) ==
    LET constants == IF lower(g) = Str_female THEN FEMALE_CONSTANTS
                     ELSE MALE_CONSTANTS
    IN  rat_div_int(
            rat_sub(rat_sub(rat_sub(
                rat_mul_int(constants.conversion, kcal_per_min),
                whole(constants.base)),
                rat_mul_int(constants.hr_coef, half_beats(hr2))),
                whole(constants.age_coef * a)),
            constants.weight_coef)

calculate_age(kcal_per_min, hr2, w, g) ==
    LET constants == IF lower(g) = Str_female THEN FEMALE_CONSTANTS
                     ELSE MALE_CONSTANTS
    IN  rat_div_int(
            rat_sub(rat_sub(rat_sub(
                rat_mul_int(constants.conversion, kcal_per_min),
                whole(constants.base)),
                rat_mul_int(constants.hr_coef, half_beats(hr2))),
                whole(constants.weight_coef * w)),
            constants.age_coef)

\* Python's round of v / d for v >= 0, d > 0: to the nearest integer, a tie
\* to the even one
round(v, d) ==
    LET q == v \div d
        r == v % d
    IN  IF 2 * r < d THEN q
        ELSE IF 2 * r > d THEN q + 1
        ELSE IF q % 2 = 0 THEN q ELSE q + 1

\* sorted(list(set(...))) of numbers
RECURSIVE sorted_distinct(_)
sorted_distinct(S) ==
    IF S = {} THEN <<>>
    ELSE LET least == CHOOSE x \in S : \A y \in S : x <= y
         IN  <<least>> \o sorted_distinct(S \ {least})

\* karvonen_zones[zone_key] = zone on an insertion-ordered dict: a key that
\* is already there keeps its place and gets the new value
dict_set(d, zone_key, zone) ==
    IF \E k \in 1..Len(d) : d[k].key = zone_key
    THEN [k \in 1..Len(d) |->
             IF d[k].key = zone_key
             THEN [key |-> zone_key, lower_hr |-> zone.lower_hr,
                   upper_hr |-> zone.upper_hr]
             ELSE d[k]]
    ELSE Append(d, [key |-> zone_key, lower_hr |-> zone.lower_hr,
                    upper_hr |-> zone.upper_hr])

\* the zone of sorted_intensities[k]; intensities are in thousandths, hrr10
\* in tenths of a beat, so hrr * intensity + resting is in 1/10000
karvonen_zone(hrr10, resting_heart_rate, sorted_intensities, k) ==
    LET current_intensity == sorted_intensities[k]
        next_intensity == IF k < Len(sorted_intensities)
                          THEN sorted_intensities[k + 1] ELSE 1000
        lo == round(hrr10 * current_intensity + resting_heart_rate * 10000,
                    10000)
        hi == round(hrr10 * next_intensity + resting_heart_rate * 10000,
                    10000)
    IN  [key      |-> <<current_intensity \div 10, next_intensity \div 10>>,
         lower_hr |-> IF lo > hi THEN hi ELSE lo,
         upper_hr |-> IF lo > hi THEN lo ELSE hi]

\* the dict after the first k iterations of the loop
RECURSIVE karvonen_loop(_, _, _, _)
karvonen_loop(hrr10, resting_heart_rate, sorted_intensities, k) ==
    IF k = 0 THEN <<>>
    ELSE LET zone == karvonen_zone(hrr10, resting_heart_rate,
                                   sorted_intensities, k)
         IN  dict_set(karvonen_loop(hrr10, resting_heart_rate,
                                    sorted_intensities, k - 1),
                      zone.key, zone)

calculate_karvonen_zones_positive_reserve(age_, resting_heart_rate, intensity_percentages, max_heart_rate) ==
    LET mhr10 == IF max_heart_rate = <<>> THEN 2080 - 7 * age_
                 ELSE 10 * max_heart_rate[1]
        hrr10 == mhr10 - 10 * resting_heart_rate
        sorted_intensities ==
            sorted_distinct({intensity_percentages[k] :
                                k \in 1..Len(intensity_percentages)})
    IN  IF \/ age_ <= 0
           \/ resting_heart_rate <= 0
           \/ intensity_percentages = <<>>
           \/ \E k \in 1..Len(intensity_percentages) :
                  ~(0 <= intensity_percentages[k]
                    /\ intensity_percentages[k] <= 1000)
           \/ (max_heart_rate # <<>> /\ max_heart_rate[1] <= 0)
           \/ hrr10 <= 0
        THEN [exc |-> "ValueError", value |-> <<>>]
        ELSE [exc |-> "ok",
              value |-> <<karvonen_loop(hrr10, resting_heart_rate,
                              sorted_intensities, Len(sorted_intensities))>>]

\* intensity_percentages is a list of thousandths, max_heart_rate is <<>>
\* (None) or <<bpm>>.  Returns [exc, value]: value = <<dict>> when it
\* returns, the dict being the sequence of its entries in insertion order
\* with the two percentages of the label as key; <<>> when it raises.
calculate_karvonen_zones(age_, resting_heart_rate, intensity_percentages, max_heart_rate) ==
    IF age_ <= 0 THEN [exc |-> "ValueError", value |-> <<>>]
    ELSE IF resting_heart_rate <= 0 THEN [exc |-> "ValueError", value |-> <<>>]
    ELSE IF intensity_percentages = <<>>
    THEN [exc |-> "ValueError", value |-> <<>>]
    ELSE IF \E k \in 1..Len(intensity_percentages) :
                ~(0 <= intensity_percentages[k]
                  /\ intensity_percentages[k] <= 1000)
    THEN [exc |-> "ValueError", value |-> <<>>]
    ELSE IF max_heart_rate # <<>> /\ max_heart_rate[1] <= 0
    THEN [exc |-> "ValueError", value |-> <<>>]
    ELSE
    LET mhr10 == IF max_heart_rate = <<>> THEN 2080 - 7 * age_
                 ELSE 10 * max_heart_rate[1]
        hrr10 == mhr10 - 10 * resting_heart_rate
        sorted_intensities ==
            sorted_distinct({intensity_percentages[k] :
                                k \in 1..Len(intensity_percentages)})
    IN  IF hrr10 < 0 THEN [exc |-> "ValueError", value |-> <<>>]
        ELSE [exc |-> "ok",
              value |-> <<karvonen_loop(hrr10, resting_heart_rate,
                              sorted_intensities, Len(sorted_intensities))>>]

----------------------------------------------------------------------------
(* Input Validator: src/src/validators/input_validator.py *)

validate_gender(g) ==
    LET normalized == lower(strip(g))
    IN  IF normalized \notin {Str_male, Str_female}
        THEN [ok |-> FALSE, value |-> <<>>]
        ELSE [ok |-> TRUE, value |-> normalized]

validate_heart_rate(hr) ==
    IF hr <= 0 THEN [ok |-> FALSE, value |-> 0]
    ELSE IF hr > 250 THEN [ok |-> FALSE, value |-> 0]
    ELSE [ok |-> TRUE, value |-> hr]

validate_weight_nomax(w) ==
    IF w <= 0 THEN [ok |-> FALSE, value |-> 0]
    ELSE [ok |-> TRUE, value |-> w]

validate_weight(w) ==
    IF w <= 0 THEN [ok |-> FALSE, value |-> 0]
    ELSE IF w > 500 THEN [ok |-> FALSE, value |-> 0]
    ELSE [ok |-> TRUE, value |-> w]

validate_age(a) ==
    IF a <= 0 THEN [ok |-> FALSE, value |-> 0]
    ELSE IF a > 130 THEN [ok |-> FALSE, value |-> 0]
    ELSE [ok |-> TRUE, value |-> a]

\* called with weight, age and gender supplied (fit_processor.py:128-132);
\* ok = FALSE stands for InputValidationError
validate_calculation_inputs(w, a, g) ==
    LET vw == validate_weight(w)
        va == validate_age(a)
        vg == validate_gender(g)
    IN  IF vw.ok /\ va.ok /\ vg.ok
        THEN [ok |-> TRUE,
              validated |-> [weight |-> vw.value, age |-> va.value,
                             gender |-> vg.value]]
        ELSE [ok |-> FALSE,
              validated |-> [weight |-> 0, age |-> 0, gender |-> <<>>]]

validate_heart_rate_data_strict(data) ==
    IF data = <<>> THEN [ok |-> FALSE, value |-> <<>>]
    ELSE IF \E k \in 1..Len(data) : ~validate_heart_rate(data[k].hr).ok
    THEN [ok |-> FALSE, value |-> <<>>]
    ELSE IF \E k \in 1..(Len(data) - 1) : data[k].ts >= data[k + 1].ts
    THEN [ok |-> FALSE, value |-> <<>>]
    ELSE [ok |-> TRUE, value |-> data]

\* ok = FALSE stands for InputValidationError; order and duplicates are
\* only logged
validate_heart_rate_data(data) ==
    IF data = <<>> THEN [ok |-> FALSE, value |-> <<>>]
    ELSE IF \E k \in 1..Len(data) : ~validate_heart_rate(data[k].hr).ok
    THEN [ok |-> FALSE, value |-> <<>>]
    ELSE [ok |-> TRUE,
          value |-> [k \in 1..Len(data) |->
                       [ts |-> data[k].ts,
                        hr |-> validate_heart_rate(data[k].hr).value]]]

validate_kcal_per_min_no_floor(kcal) ==
    IF kcal > 100 THEN [ok |-> FALSE, value |-> 0]
    ELSE [ok |-> TRUE, value |-> kcal]

\* kcal in whole kcal/min
validate_kcal_per_min(kcal) ==
    IF kcal < 0 THEN [ok |-> FALSE, value |-> 0]
    ELSE IF kcal > 100 THEN [ok |-> FALSE, value |-> 0]
    ELSE [ok |-> TRUE, value |-> kcal]

\* one "if field is not None: validated[key] = validate_field(field)" of
\* validate_calculation_inputs: acc is the state so far, field the optional
\* argument, v the validator's answer for it
validated_put(acc, key, field, v) ==
    IF acc.exc # "ok" \/ field = <<>> THEN acc
    ELSE IF ~v.ok THEN [exc |-> "InputValidationError", value |-> <<>>]
    ELSE [exc |-> "ok", value |-> <<acc.value[1] @@ (key :> v.value)>>]

\* validate_calculation_inputs with every keyword optional: <<>> is None,
\* <<v>> a supplied value.  Returns [exc, value]: value = <<mapping>> when
\* it returns, <<>> when it raises.
validate_calculation_inputs_kw(heart_rate, weight_, age_, kcal_per_min, gender_) ==
    LET s0 == [exc |-> "ok", value |-> << <<>> >>]
        s1 == validated_put(s0, "heart_rate", heart_rate,
                  IF heart_rate = <<>> THEN [ok |-> TRUE, value |-> 0]
                  ELSE validate_heart_rate(heart_rate[1]))
        s2 == validated_put(s1, "weight", weight_,
                  IF weight_ = <<>> THEN [ok |-> TRUE, value |-> 0]
                  ELSE validate_weight(weight_[1]))
        s3 == validated_put(s2, "age", age_,
                  IF age_ = <<>> THEN [ok |-> TRUE, value |-> 0]
                  ELSE validate_age(age_[1]))
        s4 == validated_put(s3, "kcal_per_min", kcal_per_min,
                  IF kcal_per_min = <<>> THEN [ok |-> TRUE, value |-> 0]
                  ELSE validate_kcal_per_min(kcal_per_min[1]))
        s5 == validated_put(s4, "gender", gender_,
                  IF gender_ = <<>> THEN [ok |-> TRUE, value |-> 0]
                  ELSE validate_gender(gender_[1]))
    IN  s5

----------------------------------------------------------------------------
(* Models: src/src/models/fit_data.py *)

\* Python's sorted(key = timestamp): stable
RECURSIVE insert_unstable(_, _)
insert_unstable(s, x) ==
    IF s = <<>> THEN <<x>>
    ELSE IF Head(s).ts < x.ts THEN <<Head(s)>> \o insert_unstable(Tail(s), x)
    ELSE <<x>> \o s

RECURSIVE insert_sorted(_, _)
insert_sorted(s, x) ==
    IF s = <<>> THEN <<x>>
    ELSE IF Head(s).ts <= x.ts THEN <<Head(s)>> \o insert_sorted(Tail(s), x)
    ELSE <<x>> \o s

RECURSIVE sorted_by_timestamp(_)
sorted_by_timestamp(s) ==
    IF s = <<>> THEN <<>>
    ELSE insert_sorted(sorted_by_timestamp(SubSeq(s, 1, Len(s) - 1)),
                       s[Len(s)])

\* HeartRateData.__post_init__ on every tuple: "ok" or the exception
create_heart_rate_data_from_tuples(data) ==
    IF \E k \in 1..Len(data) : data[k].hr <= 0 \/ data[k].hr > 250
    THEN [exc |-> "ValueError", value |-> <<>>]
    ELSE [exc |-> "ok", value |-> data]

calculate_total_duration_unsorted(data) ==
    IF Len(data) < 2 THEN [exc |-> "ValueError", value |-> 0]
    ELSE [exc |-> "ok", value |-> data[Len(data)].ts - data[1].ts]

\* duration in ticks
calculate_total_duration(data) ==
    IF Len(data) < 2 THEN [exc |-> "ValueError", value |-> 0]
    ELSE LET sorted_data == sorted_by_timestamp(data)
         IN  [exc |-> "ok",
              value |-> sorted_data[Len(sorted_data)].ts - sorted_data[1].ts]

\* CalorieData.__post_init__: "ok" or the exception raised
CalorieData_post_init(c) ==
    IF c.total_calories < 0 THEN "ValueError"
    ELSE IF c.average_heart_rate.num <= 0 THEN "ValueError"
    ELSE IF c.duration_minutes < 0 THEN "ValueError"
    ELSE IF c.weight <= 0 THEN "ValueError"
    ELSE IF c.age <= 0 THEN "ValueError"
    ELSE IF lower(c.gender) \notin {Str_male, Str_female} THEN "ValueError"
    ELSE IF c.intervals_processed < 0 THEN "ValueError"
    ELSE "ok"

----------------------------------------------------------------------------
(* Calorie Integrator: integrate_calories_over_intervals,                  *)
(* src/src/services/fit_processor.py:105-198                               *)

\* lines 139-146: the exception raised ("ok" for none) and the validated list
check_hr_data_unwrapped(data) ==
    LET v == validate_heart_rate_data(data)
    IN  IF ~v.ok THEN [exc |-> "InputValidationError", value |-> <<>>]
        ELSE IF Len(v.value) < 2 THEN [exc |-> "ValueError", value |-> <<>>]
        ELSE [exc |-> "ok", value |-> v.value]

check_hr_data(data) ==
    LET v == validate_heart_rate_data(data)
    IN  IF ~v.ok THEN [exc |-> "ValueError", value |-> <<>>]
        ELSE IF Len(v.value) < 2 THEN [exc |-> "ValueError", value |-> <<>>]
        ELSE [exc |-> "ok", value |-> v.value]

\* line 157
non_monotonic(prev_ts, curr_ts) == curr_ts <= prev_ts

\* line 164: delta_minutes < 0.01, delta in ticks
very_short_inclusive(delta) == delta * 100 <= TicksPerMinute

very_short(delta) == delta * 100 < TicksPerMinute

\* line 171: avg_hr <= 0 or avg_hr > 250, on the half-beat value
unrealistic_inclusive(avg_hr2) == avg_hr2 <= 0 \/ avg_hr2 >= 2 * 250

unrealistic(avg_hr2) == avg_hr2 <= 0 \/ avg_hr2 > 2 * 250

\* lines 153-177, one pass of the loop body over (prev, curr): whether the
\* interval is summed, and the calories it adds
interval_abs_delta(prev, curr, w, a, g) ==
    LET d == curr.ts - prev.ts
        delta == IF d < 0 THEN -d ELSE d
        avg_hr2 == prev.hr + curr.hr
    IN  IF very_short(delta) THEN [counted |-> FALSE, calories |-> 0]
        ELSE IF unrealistic(avg_hr2) THEN [counted |-> FALSE, calories |-> 0]
        ELSE [counted |-> TRUE,
              calories |-> calories_burned(avg_hr2, delta, w, a, g)]

interval(prev, curr, w, a, g) ==
    LET delta == curr.ts - prev.ts
        avg_hr2 == prev.hr + curr.hr
    IN  IF non_monotonic(prev.ts, curr.ts)
        THEN [counted |-> FALSE, calories |-> 0]
        ELSE IF very_short(delta) THEN [counted |-> FALSE, calories |-> 0]
        ELSE IF unrealistic(avg_hr2) THEN [counted |-> FALSE, calories |-> 0]
        ELSE [counted |-> TRUE,
              calories |-> calories_burned(avg_hr2, delta, w, a, g)]

RECURSIVE sum_hr(_)
sum_hr(data) ==
    IF data = <<>> THEN 0 ELSE Head(data).hr + sum_hr(Tail(data))

\* lines 185-186: sum(heart_rates) / len(heart_rates) as [num, den]
mean_heart_rate_skip_first(data) ==
    [num |-> sum_hr(Tail(data)), den |-> Len(data) - 1]

mean_heart_rate(data) == [num |-> sum_hr(data), den |-> Len(data)]

NoInputs == [weight |-> 0, age |-> 0, gender |-> <<>>]

Init ==
    /\ IdleBatch
    /\ pc = "validate_inputs"
    /\ heart_rate_data \in SeqsUpTo(Samples, MaxLen)
    /\ \E p \in Profiles :
          /\ weight = p.weight
          /\ age = p.age
          /\ gender = p.gender
    /\ validated_inputs = NoInputs
    /\ validated_hr_data = <<>>
    /\ i = 1
    /\ total_calories = 0
    /\ intervals_processed = 0
    /\ outcome = "pending"
    /\ result = <<>>
    /\ x_pc = "off"
    /\ fitfile = [kind |-> "None", records |-> <<>>]
    /\ x_records = <<>>
    /\ x_heart_rate_data = <<>>
    /\ x_outcome = "pending"
    /\ x_result = <<>>
    /\ f_pc = "off"
    /\ f_args = <<>>
    /\ f_ret = <<>>

\* lines 126-137
ValidateInputs ==
    /\ pc = "validate_inputs"
    /\ LET r == validate_calculation_inputs(weight, age, gender)
       IN  IF r.ok
           THEN /\ validated_inputs' = r.validated
                /\ pc' = "validate_data"
                /\ outcome' = outcome
           ELSE /\ validated_inputs' = validated_inputs
                /\ pc' = "done"
                /\ outcome' = "ValueError"
    /\ UNCHANGED <<heart_rate_data, weight, age, gender, validated_hr_data, i,
                   total_calories, intervals_processed, result>>
    /\ UNCHANGED <<xvars, fvars, bvars>>

\* lines 139-149
ValidateData ==
    /\ pc = "validate_data"
    /\ LET c == check_hr_data(heart_rate_data)
       IN  IF c.exc = "ok"
           THEN /\ validated_hr_data' = c.value
                /\ pc' = "loop"
                /\ i' = 2
                /\ outcome' = outcome
           ELSE /\ validated_hr_data' = validated_hr_data
                /\ pc' = "done"
                /\ i' = i
                /\ outcome' = c.exc
    /\ total_calories' = 0
    /\ intervals_processed' = 0
    /\ UNCHANGED <<heart_rate_data, weight, age, gender, validated_inputs,
                   result>>
    /\ UNCHANGED <<xvars, fvars, bvars>>

\* lines 152-178: one iteration
LoopStep ==
    /\ pc = "loop"
    /\ i <= Len(validated_hr_data)
    /\ LET r == interval(validated_hr_data[i - 1], validated_hr_data[i],
                         validated_inputs.weight, validated_inputs.age,
                         validated_inputs.gender)
       IN  IF r.counted
           THEN /\ total_calories' = total_calories + r.calories
                /\ intervals_processed' = intervals_processed + 1
           ELSE /\ total_calories' = total_calories
                /\ intervals_processed' = intervals_processed
    /\ i' = i + 1
    /\ UNCHANGED <<pc, heart_rate_data, weight, age, gender, validated_inputs,
                   validated_hr_data, outcome, result>>
    /\ UNCHANGED <<xvars, fvars, bvars>>

\* lines 184-198: the statistics and the CalorieData constructor
Finish ==
    /\ pc = "loop"
    /\ i > Len(validated_hr_data)
    /\ pc' = "done"
    /\ IF Len(validated_hr_data) = 0
       THEN /\ outcome' = "ZeroDivisionError"
            /\ result' = <<>>
       ELSE LET objects == create_heart_rate_data_from_tuples(validated_hr_data)
                duration == calculate_total_duration(objects.value)
                c == [total_calories |-> total_calories,
                      average_heart_rate |-> mean_heart_rate(validated_hr_data),
                      duration_minutes |-> duration.value,
                      weight |-> validated_inputs.weight,
                      age |-> validated_inputs.age,
                      gender |-> validated_inputs.gender,
                      intervals_processed |-> intervals_processed]
            IN  IF objects.exc # "ok"
                THEN outcome' = objects.exc /\ result' = <<>>
                ELSE IF duration.exc # "ok"
                THEN outcome' = duration.exc /\ result' = <<>>
                ELSE IF CalorieData_post_init(c) # "ok"
                THEN outcome' = CalorieData_post_init(c) /\ result' = <<>>
                ELSE outcome' = "returned" /\ result' = <<c>>
    /\ UNCHANGED <<heart_rate_data, weight, age, gender, validated_inputs,
                   validated_hr_data, i, total_calories, intervals_processed>>
    /\ UNCHANGED <<xvars, fvars, bvars>>

Next == ValidateInputs \/ ValidateData \/ LoopStep \/ Finish

Spec == Init /\ [][Next]_vars

----------------------------------------------------------------------------
(* Time-Series Extractor: extract_heart_rate_data,                         *)
(* src/src/services/fit_processor.py:22-102                                *)

\* a field of a record: its name and its value, a value being a type and a
\* number (the instant in ticks of a datetime, the number of an int)
FieldTS(t) ==
    [name |-> "timestamp", value |-> [type |-> "datetime", v |-> t]]

FieldTSBad == [name |-> "timestamp", value |-> [type |-> "str", v |-> 0]]

FieldHR(h) == [name |-> "heart_rate", value |-> [type |-> "int", v |-> h]]

FieldHRBad == [name |-> "heart_rate", value |-> [type |-> "str", v |-> 0]]

FieldOther == [name |-> "speed", value |-> [type |-> "int", v |-> 3]]

\* the records a source yields: complete ones (fields in either order, equal
\* and different instants, a heart rate above 250), ones lacking a field,
\* ones whose only timestamp or heart rate is invalid (wrong type, zero),
\* ones repeating a field, and one with no field
Records ==
    { <<FieldTS(1), FieldHR(60)>>,
      <<FieldHR(70), FieldTS(1)>>,
      <<FieldTS(0), FieldHR(300), FieldOther>>,
      <<FieldTS(1)>>,
      <<FieldHR(60)>>,
      <<FieldTSBad, FieldHR(60)>>,
      <<FieldTS(2), FieldHR(0)>>,
      <<FieldTS(0), FieldTSBad, FieldHRBad, FieldHR(90)>>,
      <<FieldTS(0), FieldTS(2), FieldHR(60), FieldHR(65)>>,
      <<>> }

\* a source: None, an object without get_messages, one whose get_messages
\* raises, one whose record iterator raises after the records it yielded
\* (the parser meeting corrupt data), and one that yields all its records
FitFiles ==
    { [kind |-> "None", records |-> <<>>],
      [kind |-> "no_get_messages", records |-> <<>>],
      [kind |-> "get_messages_raises", records |-> <<>>] }
    \cup { [kind |-> "iteration_raises", records |-> r] :
               r \in SeqsUpTo(Records, 1) }
    \cup { [kind |-> "ok", records |-> r] : r \in SeqsUpTo(Records, MaxRecords) }

\* lines 71-89: the loop over the fields of one record, from the values
\* (timestamp, hr) found so far
RECURSIVE scan_fields(_, _, _)
scan_fields(fields, timestamp, hr) ==
    IF fields = <<>> THEN [timestamp |-> timestamp, hr |-> hr]
    ELSE LET field == Head(fields)
             name == field.name
             value == field.value
         IN  IF name = "timestamp"
             THEN IF value.type # "datetime"
                  THEN scan_fields(Tail(fields), timestamp, hr)
                  ELSE scan_fields(Tail(fields), <<value.v>>, hr)
             ELSE IF name = "heart_rate"
             THEN IF value.type \notin {"int", "float"} \/ value.v <= 0
                  THEN scan_fields(Tail(fields), timestamp, hr)
                  ELSE scan_fields(Tail(fields), timestamp, <<value.v>>)
             ELSE scan_fields(Tail(fields), timestamp, hr)

ExtractInit ==
    /\ IdleBatch
    /\ x_pc = "get_messages"
    /\ fitfile \in FitFiles
    /\ x_records = <<>>
    /\ x_heart_rate_data = <<>>
    /\ x_outcome = "pending"
    /\ x_result = <<>>
    /\ f_pc = "off"
    /\ f_args = <<>>
    /\ f_ret = <<>>
    /\ pc = "off"
    /\ heart_rate_data = <<>>
    /\ weight = 0
    /\ age = 0
    /\ gender = <<>>
    /\ validated_inputs = NoInputs
    /\ validated_hr_data = <<>>
    /\ i = 1
    /\ total_calories = 0
    /\ intervals_processed = 0
    /\ outcome = "pending"
    /\ result = <<>>

GetMessages_invalid_source ==
    /\ x_pc = "get_messages"
    /\ IF fitfile.kind \in {"None", "no_get_messages", "get_messages_raises"}
       THEN x_outcome' = "InvalidFitFileError" /\ x_pc' = "done"
            /\ x_records' = <<>>
       ELSE x_outcome' = x_outcome /\ x_pc' = "records"
            /\ x_records' = fitfile.records
    /\ UNCHANGED <<fitfile, x_heart_rate_data, x_result>>
    /\ UNCHANGED <<ivars, fvars, bvars>>

\* lines 38-50
GetMessages ==
    /\ x_pc = "get_messages"
    /\ IF fitfile.kind = "None"
       THEN x_outcome' = "TypeError" /\ x_pc' = "done" /\ x_records' = <<>>
       ELSE IF fitfile.kind = "no_get_messages"
       THEN x_outcome' = "TypeError" /\ x_pc' = "done" /\ x_records' = <<>>
       ELSE IF fitfile.kind = "get_messages_raises"
       THEN x_outcome' = "FitFileError" /\ x_pc' = "done" /\ x_records' = <<>>
       ELSE x_outcome' = x_outcome /\ x_pc' = "records"
            /\ x_records' = fitfile.records
    /\ UNCHANGED <<fitfile, x_heart_rate_data, x_result>>
    /\ UNCHANGED <<ivars, fvars, bvars>>

\* lines 52-94: one record
ReadRecord ==
    /\ x_pc = "records"
    /\ x_records # <<>>
    /\ LET found == scan_fields(Head(x_records), <<>>, <<>>)
       IN  IF found.hr # <<>> /\ found.timestamp # <<>>
           THEN x_heart_rate_data' =
                    Append(x_heart_rate_data,
                           [ts |-> found.timestamp[1], hr |-> found.hr[1]])
           ELSE x_heart_rate_data' = x_heart_rate_data
    /\ x_records' = Tail(x_records)
    /\ UNCHANGED <<x_pc, fitfile, x_outcome, x_result>>
    /\ UNCHANGED <<ivars, fvars, bvars>>

\* line 52: the iterator raises instead of yielding the next record; the
\* for statement is outside every try block, so the exception of the parser
\* leaves extract_heart_rate_data as it is
RecordsRaise ==
    /\ x_pc = "records"
    /\ x_records = <<>>
    /\ fitfile.kind = "iteration_raises"
    /\ x_pc' = "done"
    /\ x_outcome' = "FitParseError"
    /\ x_result' = <<>>
    /\ UNCHANGED <<fitfile, x_records, x_heart_rate_data>>
    /\ UNCHANGED <<ivars, fvars, bvars>>

ExtractFinish_no_missing_check ==
    /\ x_pc = "records"
    /\ x_records = <<>>
    /\ fitfile.kind # "iteration_raises"
    /\ x_pc' = "done"
    /\ x_outcome' = "returned"
    /\ x_result' = <<sorted_by_timestamp(x_heart_rate_data)>>
    /\ UNCHANGED <<fitfile, x_records, x_heart_rate_data>>
    /\ UNCHANGED <<ivars, fvars, bvars>>

\* lines 96-102
ExtractFinish ==
    /\ x_pc = "records"
    /\ x_records = <<>>
    /\ fitfile.kind # "iteration_raises"
    /\ x_pc' = "done"
    /\ IF x_heart_rate_data = <<>>
       THEN x_outcome' = "MissingDataError" /\ x_result' = <<>>
       ELSE x_outcome' = "returned"
            /\ x_result' = <<sorted_by_timestamp(x_heart_rate_data)>>
    /\ UNCHANGED <<fitfile, x_records, x_heart_rate_data>>
    /\ UNCHANGED <<ivars, fvars, bvars>>

ExtractNext == GetMessages \/ ReadRecord \/ RecordsRaise \/ ExtractFinish

ExtractSpec == ExtractInit /\ [][ExtractNext]_vars

----------------------------------------------------------------------------
(* Properties of integrate_calories_over_intervals *)

\* the profile as the caller passed it is valid (section 3, Physiological
\* Profile; the gender is compared after case and whitespace normalisation)
ValidProfile ==
    /\ weight > 0 /\ weight <= 500
    /\ age > 0 /\ age <= 130
    /\ lower(strip(gender)) \in {Str_male, Str_female}

\* every sample as passed has its heart rate in (0, 250]
ValidSamples ==
    \A k \in 1..Len(heart_rate_data) :
        heart_rate_data[k].hr > 0 /\ heart_rate_data[k].hr <= 250

Returned == pc = "done" /\ outcome = "returned" /\ result # <<>>

\* the pair (k-1, k) of the samples as passed is summed by section 4.4
Summed(k) ==
    /\ heart_rate_data[k].ts > heart_rate_data[k - 1].ts
    /\ (heart_rate_data[k].ts - heart_rate_data[k - 1].ts) * 100
          >= TicksPerMinute
    /\ heart_rate_data[k - 1].hr + heart_rate_data[k].hr > 0
    /\ heart_rate_data[k - 1].hr + heart_rate_data[k].hr <= 500

SummedPairs == { k \in 2..Len(heart_rate_data) : Summed(k) }

RECURSIVE ExpectedCalories(_)
ExpectedCalories(k) ==
    IF k > Len(heart_rate_data) THEN 0
    ELSE (IF Summed(k)
          THEN calculate_kcal_per_min(
                   heart_rate_data[k - 1].hr + heart_rate_data[k].hr,
                   weight, age, lower(strip(gender)))
               * (heart_rate_data[k].ts - heart_rate_data[k - 1].ts)
          ELSE 0)
         + ExpectedCalories(k + 1)

RECURSIVE HeartRateTotal(_)
HeartRateTotal(k) ==
    IF k > Len(heart_rate_data) THEN 0
    ELSE heart_rate_data[k].hr + HeartRateTotal(k + 1)

MaxTimestamp ==
    CHOOSE t \in { heart_rate_data[k].ts : k \in 1..Len(heart_rate_data) } :
        \A k \in 1..Len(heart_rate_data) : heart_rate_data[k].ts <= t

MinTimestamp ==
    CHOOSE t \in { heart_rate_data[k].ts : k \in 1..Len(heart_rate_data) } :
        \A k \in 1..Len(heart_rate_data) : heart_rate_data[k].ts >= t

\* C1: for at least two samples with heart rates in (0, 250] and a valid
\* profile, the integrator returns a CalorieData with total_calories >= 0
\* and does not fail.
C1_ReturnsNonNegativeTotal ==
    (pc = "done" /\ ValidProfile /\ ValidSamples /\ Len(heart_rate_data) >= 2)
        => /\ outcome = "returned"
           /\ result # <<>>
           /\ result[1].total_calories >= 0

\* C2: on return, total_calories is the sum over exactly the pairs that are
\* not skipped of kcal_per_minute(mean hr) * delta_minutes, and
\* intervals_processed is the number of those pairs.
C2_TotalIsSumOfSummedPairs ==
    Returned
        => /\ result[1].total_calories = ExpectedCalories(2)
           /\ result[1].intervals_processed = Cardinality(SummedPairs)

C2_Witness ==
    /\ Returned
    /\ Len(heart_rate_data) = 3
    /\ Cardinality(SummedPairs) = 1
    /\ result[1].total_calories > 0

\* C3: a pair with curr.timestamp <= prev.timestamp is skipped without an
\* error: the step over it leaves total_calories and intervals_processed as
\* they were and moves on to the next pair; intervals_processed never
\* exceeds len(samples) - 1.
C3_NonMonotonicPairSkipped ==
    /\ [](validated_hr_data # <<>>
            => intervals_processed <= Len(heart_rate_data) - 1)
    /\ [][(/\ pc = "loop"
           /\ i <= Len(validated_hr_data)
           /\ heart_rate_data[i].ts <= heart_rate_data[i - 1].ts)
          => (/\ total_calories' = total_calories
              /\ intervals_processed' = intervals_processed
              /\ i' = i + 1
              /\ pc' = "loop"
              /\ outcome' = "pending")]_vars

C3_Witness ==
    /\ Returned
    /\ Len(heart_rate_data) = 3
    /\ heart_rate_data[2].ts <= heart_rate_data[1].ts
    /\ result[1].intervals_processed = 1

C5_TooFewSamplesFail ==
    (pc = "done" /\ ValidProfile /\ Len(heart_rate_data) < 2)
        => outcome = "ValueError" /\ result = <<>>

C5_Witness ==
    /\ pc = "done"
    /\ ValidProfile
    /\ heart_rate_data = <<>>
    /\ outcome = "ValueError"

C7_AverageOverAllSamples ==
    Returned
        => /\ result[1].average_heart_rate.den > 0
           /\ result[1].average_heart_rate.num * Len(heart_rate_data)
                = HeartRateTotal(1) * result[1].average_heart_rate.den

C7_Witness ==
    /\ Returned
    /\ result[1].intervals_processed < Len(heart_rate_data) - 1
    /\ result[1].intervals_processed > 0
    /\ \E k \in 1..Len(heart_rate_data) :
          heart_rate_data[k].hr # heart_rate_data[1].hr

\* C8 as stated: duration_minutes is the timestamp of the last sample minus
\* the timestamp of the first sample in the order given, chronological or
\* not.
C8_DurationLastMinusFirst ==
    Returned
        => result[1].duration_minutes
             = heart_rate_data[Len(heart_rate_data)].ts - heart_rate_data[1].ts

\* C8 amended: duration_minutes is the latest timestamp minus the earliest
\* timestamp among the samples (the last minus the first only when the
\* first sample is the earliest and the last the latest), whatever was
\* skipped.
C8_DurationLatestMinusEarliest ==
    Returned => result[1].duration_minutes = MaxTimestamp - MinTimestamp

C8_Witness ==
    /\ Returned
    /\ heart_rate_data[1].ts > MinTimestamp
    /\ heart_rate_data[Len(heart_rate_data)].ts > heart_rate_data[1].ts
    /\ result[1].intervals_processed < Len(heart_rate_data) - 1
    /\ result[1].duration_minutes = MaxTimestamp - MinTimestamp

\* C9: every pair whose timestamps are less than one second apart is
\* excluded: the step over it adds nothing to total_calories and does not
\* count it in intervals_processed.
C9_SubSecondPairExcluded ==
    [][(/\ pc = "loop"
        /\ i <= Len(validated_hr_data)
        /\ (validated_hr_data[i].ts - validated_hr_data[i - 1].ts) * 60
              < TicksPerMinute)
       => (/\ total_calories' = total_calories
           /\ intervals_processed' = intervals_processed)]_vars

----------------------------------------------------------------------------
(* Properties of extract_heart_rate_data *)

ValidTimestampField(f) == f.name = "timestamp" /\ f.value.type = "datetime"

ValidHeartRateField(f) ==
    /\ f.name = "heart_rate"
    /\ f.value.type \in {"int", "float"}
    /\ f.value.v > 0

\* the record holds both a valid timestamp field and a valid heart_rate field
Complete(r) ==
    /\ \E a \in 1..Len(r) : ValidTimestampField(r[a])
    /\ \E b \in 1..Len(r) : ValidHeartRateField(r[b])

\* the sample of a complete record: its last valid timestamp and heart rate
SampleOf(r) ==
    LET a == CHOOSE a \in 1..Len(r) :
                 /\ ValidTimestampField(r[a])
                 /\ \A c \in (a + 1)..Len(r) : ~ValidTimestampField(r[c])
        b == CHOOSE b \in 1..Len(r) :
                 /\ ValidHeartRateField(r[b])
                 /\ \A c \in (b + 1)..Len(r) : ~ValidHeartRateField(r[c])
    IN  [ts |-> r[a].value.v, hr |-> r[b].value.v]

\* the samples of the complete records, in record order
RECURSIVE SamplesInRecordOrder(_)
SamplesInRecordOrder(rs) ==
    IF rs = <<>> THEN <<>>
    ELSE (IF Complete(Head(rs)) THEN <<SampleOf(Head(rs))>> ELSE <<>>)
         \o SamplesInRecordOrder(Tail(rs))

At(s, t) == LET Test(x) == x.ts = t IN SelectSeq(s, Test)

ExtractReturned == x_pc = "done" /\ x_outcome = "returned" /\ x_result # <<>>

C11_NoCompleteRecordIsMissingData ==
    /\ (/\ x_pc = "done"
        /\ fitfile.kind = "ok"
        /\ \A k \in 1..Len(fitfile.records) : ~Complete(fitfile.records[k]))
           => (x_outcome = "MissingDataError" /\ x_result = <<>>)
    /\ x_result # <<>> => x_result[1] # <<>>

C11_Witness ==
    /\ x_pc = "done"
    /\ fitfile.kind = "ok"
    /\ Len(fitfile.records) >= 2
    /\ \A k \in 1..Len(fitfile.records) : ~Complete(fitfile.records[k])
    /\ \E k \in 1..Len(fitfile.records) :
          \E a \in 1..Len(fitfile.records[k]) :
              ValidTimestampField(fitfile.records[k][a])
    /\ x_outcome = "MissingDataError"

\* C12: every sample extract_heart_rate_data returns has its heart rate in
\* (0, 250].
C12_ExtractedHeartRateInRange ==
    ExtractReturned
        => \A k \in 1..Len(x_result[1]) :
               x_result[1][k].hr > 0 /\ x_result[1][k].hr <= 250

----------------------------------------------------------------------------
(* One call of validate_calculation_inputs,                                *)
(* src/src/validators/input_validator.py:140-183                           *)

IdleIntegrator ==
    /\ pc = "off"
    /\ heart_rate_data = <<>>
    /\ weight = 0
    /\ age = 0
    /\ gender = <<>>
    /\ validated_inputs = NoInputs
    /\ validated_hr_data = <<>>
    /\ i = 1
    /\ total_calories = 0
    /\ intervals_processed = 0
    /\ outcome = "pending"
    /\ result = <<>>

IdleExtractor ==
    /\ x_pc = "off"
    /\ fitfile = [kind |-> "None", records |-> <<>>]
    /\ x_records = <<>>
    /\ x_heart_rate_data = <<>>
    /\ x_outcome = "pending"
    /\ x_result = <<>>

Optional(S) == {<<>>} \cup {<<v>> : v \in S}

CalculationInputs ==
    [heart_rate   : Optional({0, 150, 250, 251}),
     weight       : Optional({0, 70, 500, 501}),
     age          : Optional({0, 30, 130, 131}),
     kcal_per_min : Optional({0 - 1, 0, 100, 101}),
     gender       : Optional({Str_male, Str_FEMALE_padded, Str_other})]

ValidateInit ==
    /\ IdleBatch
    /\ f_pc = "call"
    /\ f_args \in CalculationInputs
    /\ f_ret = <<>>
    /\ IdleIntegrator
    /\ IdleExtractor

ValidateCall ==
    /\ f_pc = "call"
    /\ f_pc' = "done"
    /\ f_ret' = validate_calculation_inputs_kw(f_args.heart_rate, f_args.weight,
                    f_args.age, f_args.kcal_per_min, f_args.gender)
    /\ UNCHANGED <<f_args, bvars>>
    /\ UNCHANGED <<ivars, xvars>>

ValidateNext == ValidateCall

ValidateSpec == ValidateInit /\ [][ValidateNext]_vars

----------------------------------------------------------------------------
(* Properties of validate_calculation_inputs *)

SuppliedKeys(args) == {k \in DOMAIN args : args[k] # <<>>}

InRange(key, v) ==
    CASE key = "heart_rate"   -> v > 0 /\ v <= 250
      [] key = "weight"       -> v > 0 /\ v <= 500
      [] key = "age"          -> v > 0 /\ v <= 130
      [] key = "kcal_per_min" -> v >= 0 /\ v <= 100
      [] key = "gender"       -> lower(strip(v)) \in {Str_male, Str_female}

AllInRange(args) == \A k \in SuppliedKeys(args) : InRange(k, args[k][1])

\* C13: validate_calculation_inputs looks only at the supplied (non-null)
\* fields.  When every supplied field is in range (heart rate (0, 250],
\* weight (0, 500], age (0, 130], kcal per minute [0, 100], gender male or
\* female after trimming and lowercasing) it returns a mapping whose keys are
\* exactly the supplied fields, each number unchanged and the gender
\* normalised; otherwise it raises InputValidationError and returns no
\* mapping, not even a partial one.
C13_ValidatesExactlySuppliedFields ==
    f_pc = "done" =>
        IF AllInRange(f_args)
        THEN /\ f_ret.exc = "ok"
             /\ Len(f_ret.value) = 1
             /\ DOMAIN f_ret.value[1] = SuppliedKeys(f_args)
             /\ \A k \in SuppliedKeys(f_args) :
                    IF k = "gender"
                    THEN /\ f_ret.value[1][k] = lower(strip(f_args[k][1]))
                         /\ f_ret.value[1][k] \in {Str_male, Str_female}
                    ELSE f_ret.value[1][k] = f_args[k][1]
        ELSE /\ f_ret.exc = "InputValidationError"
             /\ f_ret.value = <<>>

\* two fields supplied and returned (one of them a padded upper-case gender),
\* three not supplied
C13_Witness ==
    /\ f_pc = "done"
    /\ f_ret.exc = "ok"
    /\ SuppliedKeys(f_args) = {"kcal_per_min", "gender"}
    /\ f_args.kcal_per_min = <<0>>
    /\ f_args.gender = <<Str_FEMALE_padded>>
    /\ f_ret.value[1]["gender"] = Str_female

----------------------------------------------------------------------------
(* One call of validate_heart_rate_data,                                   *)
(* src/src/validators/input_validator.py:186-235                           *)

HrDataInit ==
    /\ IdleBatch
    /\ f_pc = "call"
    /\ f_args \in [heart_rate_data : SeqsUpTo(Samples, MaxLen)]
    /\ f_ret = <<>>
    /\ IdleIntegrator
    /\ IdleExtractor

HrDataCall ==
    /\ f_pc = "call"
    /\ f_pc' = "done"
    /\ LET r == validate_heart_rate_data(f_args.heart_rate_data)
       IN  f_ret' = [exc   |-> IF r.ok THEN "ok" ELSE "InputValidationError",
                     value |-> IF r.ok THEN <<r.value>> ELSE <<>>]
    /\ UNCHANGED <<f_args, bvars>>
    /\ UNCHANGED <<ivars, xvars>>

HrDataNext == HrDataCall

HrDataSpec == HrDataInit /\ [][HrDataNext]_vars

----------------------------------------------------------------------------
(* Properties of validate_heart_rate_data *)

\* C14: a non-empty list of samples whose heart rates all lie in (0, 250]
\* is accepted by validate_heart_rate_data whatever the order of its
\* timestamps and whether or not timestamps repeat, and the returned list
\* has the same length and holds the same samples at the same positions.
C14_OrderAndDuplicatesAccepted ==
    (/\ f_pc = "done"
     /\ f_args.heart_rate_data # <<>>
     /\ \A k \in 1..Len(f_args.heart_rate_data) :
            /\ f_args.heart_rate_data[k].hr > 0
            /\ f_args.heart_rate_data[k].hr <= 250)
        => /\ f_ret.exc = "ok"
           /\ Len(f_ret.value[1]) = Len(f_args.heart_rate_data)
           /\ \A k \in 1..Len(f_args.heart_rate_data) :
                  f_ret.value[1][k] = f_args.heart_rate_data[k]

\* a descending pair followed by a repeated timestamp comes back as given
C14_Witness ==
    /\ f_pc = "done"
    /\ Len(f_args.heart_rate_data) = 3
    /\ f_args.heart_rate_data[1].ts > f_args.heart_rate_data[2].ts
    /\ f_args.heart_rate_data[2].ts = f_args.heart_rate_data[3].ts
    /\ f_ret.exc = "ok"
    /\ f_ret.value[1] = f_args.heart_rate_data

----------------------------------------------------------------------------
(* Quality Auditor: calculate_data_quality_score and                       *)
(* validate_fit_file_data_integrity,                                       *)
(* src/src/validators/input_validator.py:238-383                           *)
(* Durations and gaps are in ticks, max_gap_minutes too; the quality score *)
(* is in hundredths (100 is 1.0).                                          *)

min(a, b) == IF a <= b THEN a ELSE b

max(a, b) == IF a >= b THEN a ELSE b

calculate_data_quality_score_uncapped(data_points, duration_minutes, large_gaps_, warnings) ==
    LET density_penalty ==
            IF duration_minutes > 0
            THEN IF 2 * data_points * TicksPerMinute < duration_minutes THEN 20
                 ELSE IF data_points * TicksPerMinute < duration_minutes THEN 10
                 ELSE 0
            ELSE 0
        gap_penalty == Len(large_gaps_) * 10
        warning_penalty == min(30, Len(warnings) * 5)
        score == 100 - density_penalty - gap_penalty - warning_penalty
    IN  max(0, min(100, score))

\* data_points / duration_minutes < 0.5 is 2 * data_points * TicksPerMinute <
\* duration in ticks; < 1.0 likewise
calculate_data_quality_score(data_points, duration_minutes, large_gaps_, warnings) ==
    LET density_penalty ==
            IF duration_minutes > 0
            THEN IF 2 * data_points * TicksPerMinute < duration_minutes THEN 20
                 ELSE IF data_points * TicksPerMinute < duration_minutes THEN 10
                 ELSE 0
            ELSE 0
        gap_penalty == min(30, Len(large_gaps_) * 10)
        warning_penalty == min(30, Len(warnings) * 5)
        score == 100 - density_penalty - gap_penalty - warning_penalty
    IN  max(0, min(100, score))

too_few_data_points_inclusive(data, min_data_points) ==
    Len(data) <= min_data_points

too_few_data_points(data, min_data_points) == Len(data) < min_data_points

RECURSIVE large_gaps_inclusive(_, _)
large_gaps_inclusive(sorted_data, max_gap_minutes) ==
    IF Len(sorted_data) < 2 THEN <<>>
    ELSE LET n == Len(sorted_data)
             gap_minutes == sorted_data[n].ts - sorted_data[n - 1].ts
             before == large_gaps_inclusive(SubSeq(sorted_data, 1, n - 1),
                                            max_gap_minutes)
         IN  IF gap_minutes >= max_gap_minutes
             THEN Append(before, [start_time  |-> sorted_data[n - 1].ts,
                                  end_time    |-> sorted_data[n].ts,
                                  gap_minutes |-> gap_minutes])
             ELSE before

\* the loop of lines 272-281, in index order
RECURSIVE large_gaps(_, _)
large_gaps(sorted_data, max_gap_minutes) ==
    IF Len(sorted_data) < 2 THEN <<>>
    ELSE LET n == Len(sorted_data)
             gap_minutes == sorted_data[n].ts - sorted_data[n - 1].ts
             before == large_gaps(SubSeq(sorted_data, 1, n - 1),
                                  max_gap_minutes)
         IN  IF gap_minutes > max_gap_minutes
             THEN Append(before, [start_time  |-> sorted_data[n - 1].ts,
                                  end_time    |-> sorted_data[n].ts,
                                  gap_minutes |-> gap_minutes])
             ELSE before

min_hr(heart_rates) ==
    CHOOSE h \in {heart_rates[k] : k \in 1..Len(heart_rates)} :
        \A k \in 1..Len(heart_rates) : h <= heart_rates[k]

max_hr(heart_rates) ==
    CHOOSE h \in {heart_rates[k] : k \in 1..Len(heart_rates)} :
        \A k \in 1..Len(heart_rates) : h >= heart_rates[k]

\* the locals of the flat-line loop before its first iteration; <<>> is None
flat_init ==
    [current_hr |-> <<>>, flat_start |-> <<>>, flat_count |-> 0,
     flat_periods |-> <<>>]

\* one iteration of the flat-line loop (lines 310-324)
flat_step(st, sample) ==
    IF st.current_hr = <<sample.hr>>
    THEN [st EXCEPT !.flat_start = IF @ = <<>> THEN <<sample.ts>> ELSE @,
                    !.flat_count = @ + 1]
    ELSE [current_hr   |-> <<sample.hr>>,
          flat_start   |-> <<>>,
          flat_count   |-> 1,
          flat_periods |->
              IF st.flat_count >= 10
              THEN Append(st.flat_periods,
                          [heart_rate |-> st.current_hr[1],
                           start_time |-> st.flat_start[1],
                           end_time   |-> sample.ts,
                           count      |-> st.flat_count])
              ELSE st.flat_periods]

\* the whole loop: nothing is appended after the last sample
RECURSIVE flat_loop(_)
flat_loop(sorted_data) ==
    IF sorted_data = <<>> THEN flat_init
    ELSE flat_step(flat_loop(SubSeq(sorted_data, 1, Len(sorted_data) - 1)),
                   sorted_data[Len(sorted_data)])

\* Returns [exc, value]: value = <<report>> when it returns, <<>> when it
\* raises.  The average heart rate is kept as the pair (sum, count).
validate_fit_file_data_integrity(data, min_data_points, max_gap_minutes) ==
    IF too_few_data_points(data, min_data_points)
    THEN [exc |-> "InputValidationError", value |-> <<>>]
    ELSE IF ~validate_heart_rate_data(data).ok
    THEN [exc |-> "InputValidationError", value |-> <<>>]
    ELSE
    LET validated_data == validate_heart_rate_data(data).value
        sorted_data == sorted_by_timestamp(validated_data)
        data_points == Len(sorted_data)
        total_duration == sorted_data[data_points].ts - sorted_data[1].ts
        gaps == large_gaps(sorted_data, max_gap_minutes)
        heart_rates == [k \in 1..data_points |-> sorted_data[k].hr]
        lo == min_hr(heart_rates)
        hi == max_hr(heart_rates)
        w1 == IF lo < 40 THEN <<"Very low minimum heart rate">> ELSE <<>>
        w2 == IF hi > 220 THEN <<"Very high maximum heart rate">> ELSE <<>>
        w3 == IF hi - lo > 150 THEN <<"Very large heart rate range">> ELSE <<>>
        w4 == IF gaps # <<>> THEN <<"Found large gaps">> ELSE <<>>
        flat_periods == flat_loop(sorted_data).flat_periods
        w5 == IF flat_periods # <<>>
              THEN <<"Found potential flat-line periods">> ELSE <<>>
        warnings == w1 \o w2 \o w3 \o w4 \o w5
    IN  [exc |-> "ok",
         value |-> <<[is_valid |-> TRUE,
                      data_points |-> data_points,
                      total_duration_minutes |-> total_duration,
                      average_interval_minutes |->
                          IF data_points > 1
                          THEN [num |-> total_duration, den |-> data_points - 1]
                          ELSE [num |-> 0, den |-> 1],
                      heart_rate_stats |->
                          [min |-> lo, max |-> hi,
                           average |-> [num |-> sum_hr(sorted_data),
                                        den |-> data_points],
                           range |-> hi - lo],
                      large_gaps |-> gaps,
                      flat_periods |-> flat_periods,
                      warnings |-> warnings,
                      quality_score |->
                          calculate_data_quality_score(data_points,
                              total_duration, gaps, warnings)]>>]

----------------------------------------------------------------------------
(* One call of calculate_data_quality_score,                               *)
(* src/src/validators/input_validator.py:348-383                           *)

Repeat(x, n) == [k \in 1..n |-> x]

\* durations around the density thresholds of 1 to 6 points: 0, one tick,
\* whole minutes and whole minutes plus one tick
ScoreDurations ==
    {0, 1}
    \cup {m * TicksPerMinute : m \in {1, 2, 3, 4, 6, 12}}
    \cup {m * TicksPerMinute + 1 : m \in {1, 2, 3, 4, 6, 12}}

ScoreInputs ==
    [data_points      : 1..6,
     duration_minutes : ScoreDurations,
     large_gaps       : {Repeat([start_time |-> 0, end_time |-> 1,
                                 gap_minutes |-> 1], n) : n \in 0..4},
     warnings         : {Repeat("warning", n) : n \in 0..7}]

ScoreInit ==
    /\ IdleBatch
    /\ f_pc = "call"
    /\ f_args \in ScoreInputs
    /\ f_ret = <<>>
    /\ IdleIntegrator
    /\ IdleExtractor

ScoreCall ==
    /\ f_pc = "call"
    /\ f_pc' = "done"
    /\ f_ret' = [exc   |-> "ok",
                 value |-> <<calculate_data_quality_score(f_args.data_points,
                                 f_args.duration_minutes, f_args.large_gaps,
                                 f_args.warnings)>>]
    /\ UNCHANGED <<f_args, bvars>>
    /\ UNCHANGED <<ivars, xvars>>

ScoreNext == ScoreCall

ScoreSpec == ScoreInit /\ [][ScoreNext]_vars

----------------------------------------------------------------------------
(* Properties of calculate_data_quality_score *)

\* samples per minute below 1/2, and below 1, for a positive duration
DensityBelowHalf(points, ticks) == ticks > 0 /\ 2 * points * TicksPerMinute < ticks

DensityBelowOne(points, ticks) == ticks > 0 /\ points * TicksPerMinute < ticks

DensityPenalty(points, ticks) ==
    CASE DensityBelowHalf(points, ticks) -> 20
      [] ~DensityBelowHalf(points, ticks) /\ DensityBelowOne(points, ticks) -> 10
      [] OTHER -> 0

GapPenalty(gaps) == IF gaps >= 3 THEN 30 ELSE 10 * gaps

WarningPenalty(warnings) == IF warnings >= 6 THEN 30 ELSE 5 * warnings

\* C17: the quality score, in hundredths, is 100 minus the density penalty
\* (20 below half a sample per minute, 10 from half a sample up to but not
\* including one sample per minute, 0 otherwise and for a duration of 0)
\* minus 10 per large gap up to 30 minus 5 per warning up to 30, clamped to
\* 0..100; it always lies in 0..100.
C17_QualityScoreFormula ==
    f_pc = "done" =>
        LET raw == 100 - DensityPenalty(f_args.data_points, f_args.duration_minutes)
                       - GapPenalty(Len(f_args.large_gaps))
                       - WarningPenalty(Len(f_args.warnings))
        IN  /\ f_ret.value[1] = (IF raw < 0 THEN 0 ELSE IF raw > 100 THEN 100 ELSE raw)
            /\ f_ret.value[1] >= 0
            /\ f_ret.value[1] <= 100

\* both caps bind and the density is in the middle band: 100 - 10 - 30 - 30
C17_Witness ==
    /\ f_pc = "done"
    /\ f_args.data_points = 2
    /\ f_args.duration_minutes = 4 * TicksPerMinute
    /\ Len(f_args.large_gaps) = 4
    /\ Len(f_args.warnings) = 7
    /\ f_ret.value[1] = 30

----------------------------------------------------------------------------
(* One call of validate_fit_file_data_integrity,                           *)
(* src/src/validators/input_validator.py:238-345                           *)

MaxRuns == 3

\* 0, 60 minutes, 60 minutes and one tick, 150 minutes: consecutive deltas of
\* exactly 60 and exactly 90 minutes occur
AuditTimestamps ==
    {0, 60 * TicksPerMinute, 60 * TicksPerMinute + 1, 150 * TicksPerMinute}

\* invalid, below 40, ordinary, above 220
AuditHeartRates == {0, 30, 100, 230}

AuditSamples == [ts : AuditTimestamps, hr : AuditHeartRates]

\* a run is count samples of one heart rate
Runs == [hr : {100, 101}, count : {1, 9, 10, 12}]

RECURSIVE run_heart_rates(_)
run_heart_rates(runs) ==
    IF runs = <<>> THEN <<>>
    ELSE Repeat(Head(runs).hr, Head(runs).count) \o run_heart_rates(Tail(runs))

\* the samples of a recording made of the given runs, one sample a minute
run_samples(runs) ==
    LET hrs == run_heart_rates(runs)
    IN  [k \in 1..Len(hrs) |-> [ts |-> (k - 1) * TicksPerMinute, hr |-> hrs[k]]]

AuditInputs ==
    [heart_rate_data :
         SeqsUpTo(AuditSamples, MaxLen)
         \cup {run_samples(runs) : runs \in SeqsUpTo(Runs, MaxRuns)},
     min_data_points : {0, 2, 3},
     max_gap_minutes : {60 * TicksPerMinute, 90 * TicksPerMinute}]

AuditInit ==
    /\ IdleBatch
    /\ f_pc = "call"
    /\ f_args \in AuditInputs
    /\ f_ret = <<>>
    /\ IdleIntegrator
    /\ IdleExtractor

AuditCall ==
    /\ f_pc = "call"
    /\ f_pc' = "done"
    /\ f_ret' = validate_fit_file_data_integrity(f_args.heart_rate_data,
                    f_args.min_data_points, f_args.max_gap_minutes)
    /\ UNCHANGED <<f_args, bvars>>
    /\ UNCHANGED <<ivars, xvars>>

AuditNext == AuditCall

AuditSpec == AuditInit /\ [][AuditNext]_vars

----------------------------------------------------------------------------
(* Properties of validate_fit_file_data_integrity *)

AuditReturned == f_pc = "done" /\ f_ret.exc = "ok"

Report == f_ret.value[1]

SortedInput == sorted_by_timestamp(f_args.heart_rate_data)

\* the positions k whose pair (k, k + 1) of the sorted samples is further
\* apart than max_gap_minutes
LargeGapPairs(sorted) ==
    {k \in 1..(Len(sorted) - 1) :
        sorted[k + 1].ts - sorted[k].ts > f_args.max_gap_minutes}

\* C15: large_gaps of the report has exactly one entry for each consecutive
\* pair of the timestamp-sorted samples whose delta is strictly greater than
\* max_gap_minutes, and no other entry; the entries are in ascending time
\* order and gap_minutes is the delta of the pair.
C15_OneEntryPerLargeGap ==
    AuditReturned =>
        LET sorted == SortedInput
            pairs == LargeGapPairs(sorted)
            gaps == Report.large_gaps
        IN  /\ Len(gaps) = Cardinality(pairs)
            /\ \A k \in pairs :
                   Cardinality({j \in 1..Len(gaps) :
                       /\ gaps[j].start_time = sorted[k].ts
                       /\ gaps[j].end_time = sorted[k + 1].ts
                       /\ gaps[j].gap_minutes
                              = sorted[k + 1].ts - sorted[k].ts}) = 1
            /\ \A j \in 1..(Len(gaps) - 1) :
                   gaps[j].end_time <= gaps[j + 1].start_time

\* three samples given out of order, 60 and 90 minutes apart once sorted,
\* max_gap_minutes = 60: one entry, of 90 minutes
C15_Witness ==
    /\ AuditReturned
    /\ f_args.max_gap_minutes = 60 * TicksPerMinute
    /\ Len(f_args.heart_rate_data) = 3
    /\ f_args.heart_rate_data[1].ts = 150 * TicksPerMinute
    /\ f_args.heart_rate_data[2].ts = 0
    /\ f_args.heart_rate_data[3].ts = 60 * TicksPerMinute
    /\ Len(Report.large_gaps) = 1
    /\ Report.large_gaps[1].gap_minutes = 90 * TicksPerMinute

\* the last position of the maximal run of identical heart rates that
\* starts at position k
RECURSIVE RunEnd(_, _)
RunEnd(data, k) ==
    IF k < Len(data) /\ data[k + 1].hr = data[k].hr
    THEN RunEnd(data, k + 1) ELSE k

\* the maximal runs from position k on, in order, as [heart_rate, count]
RECURSIVE MaximalRunsFrom(_, _)
MaximalRunsFrom(data, k) ==
    IF k > Len(data) THEN <<>>
    ELSE <<[heart_rate |-> data[k].hr, count |-> RunEnd(data, k) - k + 1]>>
         \o MaximalRunsFrom(data, RunEnd(data, k) + 1)

IsLongRun(r) == r.count >= 10

\* C16: the flat periods of the report are, in order, the maximal runs of 10
\* or more samples with an identical heart rate in the timestamp-sorted
\* samples, wherever they lie (a run reaching the last sample included), each
\* recorded once with count equal to the length of the run; shorter runs
\* yield none.
C16_EveryLongRunIsOneFlatPeriod ==
    AuditReturned =>
        LET sorted == SortedInput
            flat_periods == Report.flat_periods
        IN  [j \in 1..Len(flat_periods) |->
                [heart_rate |-> flat_periods[j].heart_rate,
                 count      |-> flat_periods[j].count]]
            = SelectSeq(MaximalRunsFrom(sorted, 1), IsLongRun)

\* C18 as stated: every list of at least min_data_points samples gets a
\* report.
C18_FailsOnlyBelowMinimum ==
    (f_pc = "done" /\ Len(f_args.heart_rate_data) >= f_args.min_data_points)
        => f_ret.exc = "ok"

\* C18, amended: validate_fit_file_data_integrity fails exactly when fewer
\* than min_data_points samples are supplied, or the list is empty, or some
\* sample has a heart rate outside (0, 250]; every non-empty list of at
\* least min_data_points samples with heart rates in (0, 250] gets a report.
C18_FailsOnlyBelowMinimumOrInvalid ==
    f_pc = "done" =>
        (f_ret.exc = "ok"
            <=> /\ Len(f_args.heart_rate_data) >= f_args.min_data_points
                /\ f_args.heart_rate_data # <<>>
                /\ \A k \in 1..Len(f_args.heart_rate_data) :
                       /\ f_args.heart_rate_data[k].hr > 0
                       /\ f_args.heart_rate_data[k].hr <= 250)

\* exactly min_data_points valid samples: a report with that many points
C18_Witness ==
    /\ AuditReturned
    /\ f_args.min_data_points = 2
    /\ Len(f_args.heart_rate_data) = 2
    /\ Report.is_valid
    /\ Report.data_points = 2

----------------------------------------------------------------------------
(* The Formula Engine called forwards, then backwards:                     *)
(* calculate_kcal_per_min, then calculate_heart_rate, calculate_weight and *)
(* calculate_age on its result, src/src/core/utils.py:40-108               *)

\* heart rates in half beats (0.5, 1, 50, 150.5 and 250 bpm), weights,
\* ages and genders, all valid
FormulaInputs ==
    [hr2    : {1, 2, 100, 301, 500},
     weight : {1, 70, 71, 500},
     age    : {1, 30, 31, 130},
     gender : {Str_male, Str_female, Str_FEMALE_padded}]

FormulaInit ==
    /\ IdleBatch
    /\ f_pc = "kcal_per_min"
    /\ f_args \in FormulaInputs
    /\ f_ret = <<>>
    /\ IdleIntegrator
    /\ IdleExtractor

FormulaForward ==
    /\ f_pc = "kcal_per_min"
    /\ f_pc' = "inverses"
    /\ f_ret' = [exc |-> "ok",
                 value |-> <<[kcal_per_min |->
                     [num |-> calculate_kcal_per_min(f_args.hr2, f_args.weight,
                                  f_args.age, f_args.gender),
                      den |-> KcalDen]]>>]
    /\ UNCHANGED <<f_args, bvars>>
    /\ UNCHANGED <<ivars, xvars>>

FormulaInverses ==
    /\ f_pc = "inverses"
    /\ f_pc' = "done"
    /\ LET kcal_per_min == f_ret.value[1].kcal_per_min
       IN  f_ret' = [exc |-> "ok",
                     value |-> <<[kcal_per_min |-> kcal_per_min,
                         heart_rate |-> calculate_heart_rate(kcal_per_min,
                             f_args.weight, f_args.age, f_args.gender),
                         weight |-> calculate_weight(kcal_per_min,
                             f_args.hr2, f_args.age, f_args.gender),
                         age |-> calculate_age(kcal_per_min,
                             f_args.hr2, f_args.weight, f_args.gender)]>>]
    /\ UNCHANGED <<f_args, bvars>>
    /\ UNCHANGED <<ivars, xvars>>

FormulaNext == FormulaForward \/ FormulaInverses

FormulaSpec == FormulaInit /\ [][FormulaNext]_vars

----------------------------------------------------------------------------
(* Properties of the Formula Engine *)

\* C19: for either gender and every valid heart rate, weight and age,
\* calculate_heart_rate of the kcal/min value that calculate_kcal_per_min
\* gives, with the same weight, age and gender, is the heart rate again, and
\* calculate_weight and calculate_age recover the weight and the age from
\* that value and the two other variables (equality of exact fractions).
C19_InverseFormulasRoundTrip ==
    f_pc = "done" =>
        /\ rat_eq(f_ret.value[1].heart_rate, half_beats(f_args.hr2))
        /\ rat_eq(f_ret.value[1].weight, whole(f_args.weight))
        /\ rat_eq(f_ret.value[1].age, whole(f_args.age))

\* a woman of 70 kg and 30 years at 150.5 bpm: a positive kcal/min value
\* from the female coefficients, and all three inverses computed
C19_Witness ==
    /\ f_pc = "done"
    /\ f_args.gender = Str_female
    /\ f_args.hr2 = 301
    /\ f_args.weight = 70
    /\ f_args.age = 30
    /\ f_ret.value[1].kcal_per_min.num
           = 2 * (0 - 204022) + 4472 * 301 - 2 * 1263 * 70 + 2 * 740 * 30
    /\ f_ret.value[1].heart_rate.num * 2 = 301 * f_ret.value[1].heart_rate.den
    /\ f_ret.value[1].weight.den # 0
    /\ f_ret.value[1].age.den # 0

----------------------------------------------------------------------------
(* One call of calculate_karvonen_zones, src/src/core/utils.py:110-175     *)

\* intensities in thousandths: 0, three inside the same percent, 0.6, 1.0
\* and one above 1.0
Intensities == {0, 500, 501, 502, 600, 1000, 1001}

KarvonenInputs ==
    [age                   : {0, 30, 31},
     resting_heart_rate    : {0, 60, 187},
     intensity_percentages : SeqsUpTo(Intensities, MaxLen),
     max_heart_rate        : Optional({0, 180, 187})]

KarvonenInit ==
    /\ IdleBatch
    /\ f_pc = "call"
    /\ f_args \in KarvonenInputs
    /\ f_ret = <<>>
    /\ IdleIntegrator
    /\ IdleExtractor

KarvonenCall ==
    /\ f_pc = "call"
    /\ f_pc' = "done"
    /\ f_ret' = calculate_karvonen_zones(f_args.age, f_args.resting_heart_rate,
                    f_args.intensity_percentages, f_args.max_heart_rate)
    /\ UNCHANGED <<f_args, bvars>>
    /\ UNCHANGED <<ivars, xvars>>

KarvonenNext == KarvonenCall

KarvonenSpec == KarvonenInit /\ [][KarvonenNext]_vars

----------------------------------------------------------------------------
(* Properties of calculate_karvonen_zones *)

KarvonenReturned == f_pc = "done" /\ f_ret.exc = "ok"

DistinctIntensities ==
    {f_args.intensity_percentages[k] :
        k \in 1..Len(f_args.intensity_percentages)}

\* the maximum heart rate in tenths of a beat: measured, or 208 - 0.7 * age
Mhr10 ==
    IF f_args.max_heart_rate # <<>> THEN 10 * f_args.max_heart_rate[1]
    ELSE 2080 - 7 * f_args.age

\* round(hrr * intensity + resting_hr) for an intensity in thousandths
ZoneBound(intensity) ==
    round((Mhr10 - 10 * f_args.resting_heart_rate) * intensity
              + 10000 * f_args.resting_heart_rate, 10000)

\* C20: the zones calculate_karvonen_zones returns are, in order, one for
\* each distinct supplied intensity in ascending order, from
\* round(hrr * intensity + resting) up to the same bound of the next larger
\* distinct intensity, or of 100% for the largest; so lower <= upper in every
\* zone and each zone's upper bound is the next zone's lower bound.
C20_ZonePerIntensityAscending ==
    KarvonenReturned =>
        LET ascending == sorted_distinct(DistinctIntensities)
            zones == f_ret.value[1]
        IN  /\ Len(zones) = Len(ascending)
            /\ \A k \in 1..Len(zones) :
                   /\ zones[k].lower_hr = ZoneBound(ascending[k])
                   /\ zones[k].upper_hr =
                          ZoneBound(IF k < Len(ascending)
                                    THEN ascending[k + 1] ELSE 1000)
                   /\ zones[k].lower_hr <= zones[k].upper_hr
                   /\ k < Len(zones) => zones[k].upper_hr = zones[k + 1].lower_hr

\* the arguments pass the checks of lines 127-136
KarvonenArgumentsValid ==
    /\ f_args.age > 0
    /\ f_args.resting_heart_rate > 0
    /\ f_args.intensity_percentages # <<>>
    /\ \A x \in DistinctIntensities : 0 <= x /\ x <= 1000
    /\ f_args.max_heart_rate # <<>> => f_args.max_heart_rate[1] > 0

\* C21: when the maximum heart rate (measured, or 208 - 0.7 * age) is below
\* the resting heart rate, calculate_karvonen_zones raises ValueError and
\* returns no zones; when it equals or exceeds the resting heart rate and the
\* arguments are otherwise valid, it returns.
C21_NegativeReserveFails ==
    f_pc = "done" =>
        /\ Mhr10 < 10 * f_args.resting_heart_rate
               => (f_ret.exc = "ValueError" /\ f_ret.value = <<>>)
        /\ (KarvonenArgumentsValid /\ Mhr10 >= 10 * f_args.resting_heart_rate)
               => f_ret.exc = "ok"

\* valid arguments whose estimated maximum (208 - 0.7 * 31 = 186.3) is below
\* the resting heart rate 187: ValueError
C21_Witness ==
    /\ f_pc = "done"
    /\ KarvonenArgumentsValid
    /\ f_args.age = 31
    /\ f_args.resting_heart_rate = 187
    /\ f_args.max_heart_rate = <<>>
    /\ f_ret.exc = "ValueError"

\* C29: the mapping calculate_karvonen_zones returns has exactly one zone
\* per distinct supplied intensity: as many entries as there are distinct
\* values in intensity_percentages.
C29_OneZonePerDistinctIntensity ==
    KarvonenReturned =>
        Len(f_ret.value[1]) = Cardinality(DistinctIntensities)

\* the positions at which a maximal run of identical heart rates starts
RunStarts(data) ==
    {a \in 1..Len(data) : a = 1 \/ data[a - 1].hr # data[a].hr}

\* C28: every flat period of the report is a maximal run of identical heart
\* rates of the timestamp-sorted samples, with start_time the timestamp of
\* the first sample of the run, end_time the timestamp of its last sample
\* and count the number of samples from the first to the last.
C28_FlatPeriodSpansItsRun ==
    AuditReturned =>
        LET sorted == SortedInput
            flat_periods == Report.flat_periods
        IN  \A j \in 1..Len(flat_periods) :
                \E a \in RunStarts(sorted) :
                    /\ sorted[a].hr = flat_periods[j].heart_rate
                    /\ flat_periods[j].start_time = sorted[a].ts
                    /\ flat_periods[j].end_time = sorted[RunEnd(sorted, a)].ts
                    /\ flat_periods[j].count = RunEnd(sorted, a) - a + 1

----------------------------------------------------------------------------
(* Properties of integrate_calories_over_intervals, continued *)

\* the pair (k-1, k) of the validated samples has acceptable timestamps:
\* increasing and at least 0.01 minutes apart
TimestampsAccepted(k) ==
    /\ validated_hr_data[k].ts > validated_hr_data[k - 1].ts
    /\ (validated_hr_data[k].ts - validated_hr_data[k - 1].ts) * 100
          >= TicksPerMinute

\* C30: once the samples have passed validate_heart_rate_data, the average
\* heart rate of every consecutive pair lies in (0, 250], and the intervals
\* the loop has counted so far are exactly the pairs it has visited whose
\* timestamps are acceptable: no pair is skipped for its average heart rate.
C30_AverageSkipNeverFires ==
    (pc \in {"loop", "done"} /\ validated_hr_data # <<>>)
        => /\ \A k \in 2..Len(validated_hr_data) :
                  /\ validated_hr_data[k - 1].hr + validated_hr_data[k].hr > 0
                  /\ validated_hr_data[k - 1].hr + validated_hr_data[k].hr
                         <= 2 * 250
           /\ intervals_processed
                  = Cardinality({k \in 2..(i - 1) : TimestampsAccepted(k)})

\* two samples of 250 bpm a minute apart (average exactly 250): counted
C30_Witness ==
    /\ pc = "done"
    /\ Len(validated_hr_data) = 2
    /\ validated_hr_data[1].hr = 250
    /\ validated_hr_data[2].hr = 250
    /\ TimestampsAccepted(2)
    /\ i = 3
    /\ intervals_processed = 1

----------------------------------------------------------------------------
(* Cardio calculator: calculate_with_error_handling,                       *)
(* src/src/cardio/calculator.py:46-101                                     *)
(* values is a dict: a function on the keys it holds, <<>> for None and    *)
(* <<v>> for a value.  A message is the sequence of its pieces.            *)

\* values.get(key): None for a key that is not there
dict_get(values, key) == IF key \in DOMAIN values THEN values[key] ELSE <<>>

\* any(values.get(key) is None for key in keys)
any_missing(values, keys) == \E key \in keys : dict_get(values, key) = <<>>

\* evaluating values['gender'] and, inside the formula, gender.lower()
gender_failure(values) ==
    IF "gender" \notin DOMAIN values
    THEN [exc |-> "KeyError", message |-> <<"'gender'">>, value |-> <<>>]
    ELSE IF values["gender"] = <<>>
    THEN [exc |-> "AttributeError",
          message |-> <<"'NoneType' object has no attribute 'lower'">>,
          value |-> <<>>]
    ELSE [exc |-> "ok", message |-> <<>>, value |-> <<>>]

missing_inputs(missing_var) ==
    [exc |-> "InputValidationError",
     message |-> <<"Missing required inputs for ", missing_var, " calculation">>,
     value |-> <<>>]

returned(v) == [exc |-> "ok", message |-> <<>>, value |-> <<v>>]

\* the body of the try block (lines 62-91): what it returns or raises
calculation_body(missing_var, values) ==
    IF missing_var = "kcal_per_min"
    THEN IF any_missing(values, {"heart_rate", "weight", "age"})
         THEN missing_inputs(missing_var)
         ELSE IF gender_failure(values).exc # "ok" THEN gender_failure(values)
         ELSE returned([num |-> calculate_kcal_per_min(values["heart_rate"][1],
                                    values["weight"][1], values["age"][1],
                                    values["gender"][1]),
                        den |-> KcalDen])
    ELSE IF missing_var = "heart_rate"
    THEN IF any_missing(values, {"kcal_per_min", "weight", "age"})
         THEN missing_inputs(missing_var)
         ELSE IF gender_failure(values).exc # "ok" THEN gender_failure(values)
         ELSE returned(calculate_heart_rate(values["kcal_per_min"][1],
                           values["weight"][1], values["age"][1],
                           values["gender"][1]))
    ELSE IF missing_var = "weight"
    THEN IF any_missing(values, {"kcal_per_min", "heart_rate", "age"})
         THEN missing_inputs(missing_var)
         ELSE IF gender_failure(values).exc # "ok" THEN gender_failure(values)
         ELSE returned(calculate_weight(values["kcal_per_min"][1],
                           values["heart_rate"][1], values["age"][1],
                           values["gender"][1]))
    ELSE IF missing_var = "age"
    THEN IF any_missing(values, {"kcal_per_min", "heart_rate", "weight"})
         THEN missing_inputs(missing_var)
         ELSE IF gender_failure(values).exc # "ok" THEN gender_failure(values)
         ELSE returned(calculate_age(values["kcal_per_min"][1],
                           values["heart_rate"][1], values["weight"][1],
                           values["gender"][1]))
    ELSE [exc |-> "ValueError",
          message |-> <<"Unknown variable: ", missing_var>>,
          value |-> <<>>]

except_clauses_without_catch_all(r) ==
    IF r.exc = "ok" THEN r
    ELSE IF r.exc = "ZeroDivisionError"
    THEN [exc |-> "CalculationError",
          message |-> <<"Division by zero error: ">> \o r.message,
          value |-> <<>>]
    ELSE IF r.exc = "ValueError"
    THEN [exc |-> "CalculationError",
          message |-> <<"Invalid value in calculation: ">> \o r.message,
          value |-> <<>>]
    ELSE r

\* the except clauses (lines 93-101); InputValidationError, KeyError and
\* AttributeError are neither ZeroDivisionError nor ValueError
except_clauses(r) ==
    IF r.exc = "ok" THEN r
    ELSE IF r.exc = "ZeroDivisionError"
    THEN [exc |-> "CalculationError",
          message |-> <<"Division by zero error: ">> \o r.message,
          value |-> <<>>]
    ELSE IF r.exc = "ValueError"
    THEN [exc |-> "CalculationError",
          message |-> <<"Invalid value in calculation: ">> \o r.message,
          value |-> <<>>]
    ELSE [exc |-> "CalculationError",
          message |-> <<"Calculation error: ">> \o r.message,
          value |-> <<>>]

calculate_with_error_handling(missing_var, values) ==
    except_clauses(calculation_body(missing_var, values))

Restrict(f, K) == [k \in K |-> f[k]]

\* every dict over the five keys: each key absent, None or a value
\* (150 bpm in half beats, 70 kg, 30 years, the kcal/min of these for a man)
CalculatorValues ==
    {Restrict(full, K) :
        full \in [heart_rate   : Optional({300}),
                  weight       : Optional({70}),
                  age          : Optional({30}),
                  kcal_per_min : Optional({[num |-> calculate_kcal_per_min(300,
                                                        70, 30, Str_male),
                                            den |-> KcalDen]}),
                  gender       : Optional({Str_male, Str_female})],
        K \in SUBSET {"heart_rate", "weight", "age", "kcal_per_min", "gender"}}

CalculatorInputs ==
    [missing_var : {"kcal_per_min", "heart_rate", "weight", "age", "unknown"},
     values      : CalculatorValues]

CalculatorInit ==
    /\ IdleBatch
    /\ f_pc = "call"
    /\ f_args \in CalculatorInputs
    /\ f_ret = <<>>
    /\ IdleIntegrator
    /\ IdleExtractor

CalculatorCall ==
    /\ f_pc = "call"
    /\ f_pc' = "done"
    /\ f_ret' = calculate_with_error_handling(f_args.missing_var, f_args.values)
    /\ UNCHANGED <<f_args, bvars>>
    /\ UNCHANGED <<ivars, xvars>>

CalculatorNext == CalculatorCall

CalculatorSpec == CalculatorInit /\ [][CalculatorNext]_vars

----------------------------------------------------------------------------
(* Properties of calculate_with_error_handling *)

RequiredInputs(missing_var) ==
    {"kcal_per_min", "heart_rate", "weight", "age"} \ {missing_var}

InputMissing(values, key) == key \notin DOMAIN values \/ values[key] = <<>>

----------------------------------------------------------------------------
(* process_fit_file, src/src/services/fit_processor.py:201-312, with       *)
(* validate_file_path (input_validator.py:386-411) and                     *)
(* ProcessingResult.__post_init__ (fit_data.py:130-160).                   *)
(* The call frame is (f_pc, f_args, f_ret); extract_heart_rate_data and    *)
(* integrate_calories_over_intervals run in their own variables.  A path   *)
(* is <<>> when it is not a string and <<string>> when it is; a message is *)
(* the fixed text it starts with.                                          *)

Str_path == <<"a", ".", "f", "i", "t">>

Str_path_padded == <<" ", "a", ".", "f", "i", "t", " ">>

Str_path_wildcard == <<"a", "?", ".", "f", "i", "t">>

Str_blank == <<" ", " ">>

Str_empty == <<>>

dangerous_chars == {"<", ">", "|", "*", "?"}

validate_file_path(file_path) ==
    IF file_path = <<>>
    THEN [exc |-> "InputValidationError",
          message |-> <<"File path must be a string, got ">>, value |-> <<>>]
    ELSE IF strip(file_path[1]) = <<>>
    THEN [exc |-> "InputValidationError",
          message |-> <<"File path cannot be empty">>, value |-> <<>>]
    ELSE IF \E k \in 1..Len(file_path[1]) : file_path[1][k] \in dangerous_chars
    THEN [exc |-> "InputValidationError",
          message |-> <<"File path contains invalid character: ">>,
          value |-> <<>>]
    ELSE [exc |-> "ok", message |-> <<>>, value |-> <<strip(file_path[1])>>]

\* the constructor of ProcessingResult: the object, or the exception of
\* __post_init__ (calorie_data and error_message are <<>> for None)
ProcessingResult(file_path, success, calorie_data, hr_objects, error_message) ==
    IF file_path = <<>> THEN [exc |-> "TypeError", value |-> <<>>]
    ELSE IF file_path[1] = Str_empty THEN [exc |-> "ValueError", value |-> <<>>]
    ELSE IF success /\ calorie_data = <<>>
    THEN [exc |-> "ValueError", value |-> <<>>]
    ELSE IF ~success /\ error_message = <<>>
    THEN [exc |-> "ValueError", value |-> <<>>]
    ELSE [exc |-> "ok",
          value |-> <<[file_path |-> file_path[1],
                       success |-> success,
                       calorie_data |-> calorie_data,
                       heart_rate_data |-> hr_objects,
                       error_message |-> error_message]>>]

\* lines 229-254: the checks before the extraction.  What is raised, or
\* "ok" with the validated path.
open_fit_file(args) ==
    LET path == validate_file_path(args.file_path)
        inputs == validate_calculation_inputs(args.weight, args.age, args.gender)
    IN  IF path.exc # "ok" THEN path
        ELSE IF ~inputs.ok
        THEN [exc |-> "InputValidationError",
              message |-> <<"invalid weight, age or gender">>, value |-> <<>>]
        ELSE IF ~args.file.exists
        THEN [exc |-> "FileNotFoundError", message |-> <<"File not found: ">>,
              value |-> <<>>]
        ELSE IF ~args.file.isfile
        THEN [exc |-> "ValueError", message |-> <<"Not a file: ">>,
              value |-> <<>>]
        ELSE IF ~args.file.readable
        THEN [exc |-> "PermissionError", message |-> <<"Permission denied: ">>,
              value |-> <<>>]
        ELSE IF ~args.file.opens
        THEN [exc |-> "InvalidFitFileError",
              message |-> <<"Error opening FIT file: ">>, value |-> <<>>]
        ELSE path

except_outer_reraising(args, e) ==
    [exc |-> e.exc, value |-> <<>>]

\* lines 296-312: both outer except clauses build a failure result with the
\* path as it was passed
except_outer(args, e) ==
    ProcessingResult(args.file_path, FALSE, <<>>, <<>>, <<e.message>>)

\* lines 277-294: the inner except clauses, with the validated path
except_inner(args, exc) ==
    ProcessingResult(validate_file_path(args.file_path).value, FALSE, <<>>, <<>>,
        IF exc = "MissingDataError" THEN << <<"No heart rate data found: ">> >>
        ELSE << <<"Error processing FIT file: ">> >>)

\* the states of a path on disk and of the parser on it
ProcessFiles ==
    { [exists |-> FALSE, isfile |-> FALSE, readable |-> FALSE, opens |-> FALSE,
       fitfile |-> [kind |-> "None", records |-> <<>>]],
      [exists |-> TRUE, isfile |-> FALSE, readable |-> TRUE, opens |-> FALSE,
       fitfile |-> [kind |-> "None", records |-> <<>>]],
      [exists |-> TRUE, isfile |-> TRUE, readable |-> FALSE, opens |-> FALSE,
       fitfile |-> [kind |-> "None", records |-> <<>>]],
      [exists |-> TRUE, isfile |-> TRUE, readable |-> TRUE, opens |-> FALSE,
       fitfile |-> [kind |-> "None", records |-> <<>>]] }
    \cup { [exists |-> TRUE, isfile |-> TRUE, readable |-> TRUE, opens |-> TRUE,
            fitfile |-> f] :
             f \in { [kind |-> "no_get_messages", records |-> <<>>],
                     [kind |-> "get_messages_raises", records |-> <<>>],
                     [kind |-> "iteration_raises",
                      records |-> << <<FieldTS(0), FieldHR(100)>> >>] }
                   \cup { [kind |-> "ok", records |-> r] :
                            r \in SeqsUpTo({ <<FieldTS(0), FieldHR(100)>>,
                                             <<FieldTS(305), FieldHR(120)>>,
                                             <<FieldTS(5), FieldHR(300)>>,
                                             <<FieldHR(60)>> }, MaxRecords) } }

ProcessInputs ==
    { [file_path |-> fp, weight |-> pr.weight, age |-> pr.age,
       gender |-> pr.gender, file |-> file] :
         fp \in {<<>>, <<Str_empty>>, <<Str_blank>>, <<Str_path>>,
                 <<Str_path_padded>>, <<Str_path_wildcard>>},
         pr \in { [weight |-> 70, age |-> 30, gender |-> Str_FEMALE_padded],
                  [weight |-> 501, age |-> 30, gender |-> Str_male] },
         file \in ProcessFiles }

ProcessInit ==
    /\ IdleBatch
    /\ f_pc = "call"
    /\ f_args \in ProcessInputs
    /\ f_ret = <<>>
    /\ IdleIntegrator
    /\ IdleExtractor

\* lines 227-254, and the outer except clauses when a check fails
ProcessOpen ==
    /\ f_pc = "call"
    /\ LET opened == open_fit_file(f_args)
       IN  IF opened.exc # "ok"
           THEN /\ f_pc' = "done"
                /\ f_ret' = except_outer(f_args, opened)
                /\ UNCHANGED xvars
           ELSE /\ f_pc' = "extract"
                /\ f_ret' = f_ret
                /\ x_pc' = "get_messages"
                /\ fitfile' = f_args.file.fitfile
                /\ x_records' = <<>>
                /\ x_heart_rate_data' = <<>>
                /\ x_outcome' = "pending"
                /\ x_result' = <<>>
    /\ UNCHANGED <<f_args, bvars>>
    /\ UNCHANGED ivars

\* lines 257-264: extract_heart_rate_data has returned or raised; the
\* objects are built and integrate_calories_over_intervals is called
ProcessExtracted ==
    /\ f_pc = "extract"
    /\ x_pc = "done"
    /\ IF x_outcome # "returned"
       THEN /\ f_pc' = "done"
            /\ f_ret' = except_inner(f_args, x_outcome)
            /\ UNCHANGED ivars
       ELSE LET objects == create_heart_rate_data_from_tuples(x_result[1])
                inputs == validate_calculation_inputs(f_args.weight, f_args.age,
                                                      f_args.gender).validated
            IN  IF objects.exc # "ok"
                THEN /\ f_pc' = "done"
                     /\ f_ret' = except_inner(f_args, objects.exc)
                     /\ UNCHANGED ivars
                ELSE /\ f_pc' = "integrate"
                     /\ f_ret' = f_ret
                     /\ pc' = "validate_inputs"
                     /\ heart_rate_data' = x_result[1]
                     /\ weight' = inputs.weight
                     /\ age' = inputs.age
                     /\ gender' = inputs.gender
                     /\ validated_inputs' = NoInputs
                     /\ validated_hr_data' = <<>>
                     /\ i' = 1
                     /\ total_calories' = 0
                     /\ intervals_processed' = 0
                     /\ outcome' = "pending"
                     /\ result' = <<>>
    /\ UNCHANGED <<f_args, bvars>>
    /\ UNCHANGED xvars

\* lines 266-294: integrate_calories_over_intervals has returned or raised
ProcessReturn ==
    /\ f_pc = "integrate"
    /\ pc = "done"
    /\ f_pc' = "done"
    /\ IF outcome # "returned"
       THEN f_ret' = except_inner(f_args, outcome)
       ELSE f_ret' = ProcessingResult(validate_file_path(f_args.file_path).value,
                         TRUE, result,
                         create_heart_rate_data_from_tuples(x_result[1]).value,
                         <<>>)
    /\ UNCHANGED <<f_args, bvars>>
    /\ UNCHANGED <<ivars, xvars>>

ProcessNext ==
    \/ ProcessOpen
    \/ (f_pc = "extract" /\ ExtractNext)
    \/ ProcessExtracted
    \/ (f_pc = "integrate" /\ Next)
    \/ ProcessReturn

ProcessSpec == ProcessInit /\ [][ProcessNext]_vars

----------------------------------------------------------------------------
(* Properties of process_fit_file *)

\* the path and the profile pass their validation
ProcessArgumentsValid ==
    /\ validate_file_path(f_args.file_path).exc = "ok"
    /\ validate_calculation_inputs(f_args.weight, f_args.age, f_args.gender).ok

\* C23: for an unusable file process_fit_file raises a typed error to its
\* caller: FileNotFoundError when the path does not exist, ValueError when
\* it is not a file, PermissionError when it is not readable and
\* InvalidFitFileError when the parser cannot open it.
C23_UnusableFileRaisesTypedError ==
    (f_pc = "done" /\ ProcessArgumentsValid)
        => /\ ~f_args.file.exists => f_ret.exc = "FileNotFoundError"
           /\ (f_args.file.exists /\ ~f_args.file.isfile)
                  => f_ret.exc = "ValueError"
           /\ (f_args.file.exists /\ f_args.file.isfile /\ ~f_args.file.readable)
                  => f_ret.exc = "PermissionError"
           /\ (f_args.file.exists /\ f_args.file.isfile /\ f_args.file.readable
               /\ ~f_args.file.opens)
                  => f_ret.exc = "InvalidFitFileError"

\* the file is there and readable, but the parser cannot open it, or its
\* records cannot be obtained or iterated
SourceFailure ==
    /\ ProcessArgumentsValid
    /\ f_args.file.exists /\ f_args.file.isfile /\ f_args.file.readable
    /\ \/ ~f_args.file.opens
       \/ f_args.file.fitfile.kind \in {"no_get_messages", "get_messages_raises",
                                        "iteration_raises"}

\* the error raised for the source: by the opening, else by the extraction
SourceErrorKind ==
    IF ~f_args.file.opens THEN open_fit_file(f_args).exc ELSE x_outcome

C26_AlwaysReturnsProcessingResult ==
    f_pc = "done"
        => /\ f_ret.exc = "ok"
           /\ \/ f_ret.value[1].success /\ f_ret.value[1].calorie_data # <<>>
              \/ ~f_ret.value[1].success /\ f_ret.value[1].error_message # <<>>

----------------------------------------------------------------------------
(* The batch driver process_fit_files_option, src/src/cli/interface.py:    *)
(* the for loop of lines 98-119 over the paths glob returned, each path    *)
(* given to process_fit_file with the profile of the configuration.        *)

MaxFiles == 3

Digits == <<"1", "2", "3", "4", "5", "6", "7", "8", "9">>

\* the k-th path of the directory listing; a file name may hold any
\* character but "/"
BatchPath(k, name) ==
    IF name = "wildcard" THEN <<Digits[k], "?", ".", "f", "i", "t">>
    ELSE <<Digits[k], ".", "f", "i", "t">>

\* what a listed path can be on disk when it is processed: the fitfile
\* when the parser opens it, <<>> when the path is gone
BatchFiles ==
    { [name |-> "plain", fitfile |-> <<>>],
      [name |-> "plain",
       fitfile |-> <<[kind |-> "get_messages_raises", records |-> <<>>]>>],
      [name |-> "plain",
       fitfile |-> <<[kind |-> "iteration_raises",
                      records |-> << <<FieldTS(0), FieldHR(100)>> >>]>>] }
    \cup { [name |-> n,
            fitfile |-> <<[kind |-> "ok",
                           records |-> << <<FieldTS(0), FieldHR(100)>>,
                                          <<FieldTS(305), FieldHR(120)>> >>]>>] :
             n \in {"plain", "wildcard"} }

\* the state of the path for process_fit_file
BatchFile(f) ==
    IF f.fitfile = <<>>
    THEN [exists |-> FALSE, isfile |-> FALSE, readable |-> FALSE,
          opens |-> FALSE, fitfile |-> [kind |-> "None", records |-> <<>>]]
    ELSE [exists |-> TRUE, isfile |-> TRUE, readable |-> TRUE, opens |-> TRUE,
          fitfile |-> f.fitfile[1]]

\* lines 56-70: the profile of the configuration, or the default one
BatchConfigs ==
    { [weight_kg |-> 70, age_years |-> 30, gender |-> Str_male],
      [weight_kg |-> 501, age_years |-> 30, gender |-> Str_male] }

\* lines 88-100
BatchInit ==
    /\ b_pc = "loop"
    /\ config \in BatchConfigs
    /\ \E files \in SeqsUpTo(BatchFiles, MaxFiles) :
          /\ files # <<>>
          /\ fit_files = [k \in 1..Len(files) |->
                             [file_path |-> BatchPath(k, files[k].name),
                              file |-> BatchFile(files[k])]]
    /\ b_index = 0
    /\ processed_count = 0
    /\ error_count = 0
    /\ processing_log = <<>>
    /\ f_pc = "off"
    /\ f_args = <<>>
    /\ f_ret = <<>>
    /\ IdleIntegrator
    /\ IdleExtractor

\* lines 102-104: the loop takes the next path and calls process_fit_file
BatchCall ==
    /\ b_pc = "loop"
    /\ b_index < Len(fit_files)
    /\ b_index' = b_index + 1
    /\ processing_log' = Append(processing_log, fit_files[b_index + 1].file_path)
    /\ b_pc' = "file"
    /\ f_pc' = "call"
    /\ f_args' = [file_path |-> <<fit_files[b_index + 1].file_path>>,
                  weight |-> config.weight_kg,
                  age |-> config.age_years,
                  gender |-> config.gender,
                  file |-> fit_files[b_index + 1].file]
    /\ f_ret' = <<>>
    /\ UNCHANGED <<config, fit_files, processed_count, error_count>>
    /\ UNCHANGED <<ivars, xvars>>

\* lines 104-119: process_fit_file is back.  An exception leaves the loop
\* for the except clause of line 126; a result is counted.
BatchResult ==
    /\ b_pc = "file"
    /\ f_pc = "done"
    /\ f_pc' = "off"
    /\ IF f_ret.exc # "ok"
       THEN /\ b_pc' = "aborted"
            /\ UNCHANGED <<processed_count, error_count>>
       ELSE /\ b_pc' = "loop"
            /\ IF f_ret.value[1].success
               THEN /\ processed_count' = processed_count + 1
                    /\ error_count' = error_count
               ELSE /\ error_count' = error_count + 1
                    /\ processed_count' = processed_count
    /\ UNCHANGED <<f_args, f_ret>>
    /\ UNCHANGED <<config, fit_files, b_index, processing_log>>
    /\ UNCHANGED <<ivars, xvars>>

\* lines 121-125: the list is exhausted
BatchEnd ==
    /\ b_pc = "loop"
    /\ b_index = Len(fit_files)
    /\ b_pc' = "done"
    /\ UNCHANGED <<config, fit_files, b_index, processed_count, error_count,
                   processing_log>>
    /\ UNCHANGED <<ivars, xvars, fvars>>

BatchNext ==
    \/ BatchCall
    \/ (b_pc = "file" /\ ProcessNext)
    \/ BatchResult
    \/ BatchEnd

BatchSpec == BatchInit /\ [][BatchNext]_vars

----------------------------------------------------------------------------
(* Properties of process_fit_files_option *)

----------------------------------------------------------------------------
(* load_user_config, src/src/config/config_manager.py:25-78.  The          *)
(* arguments are what load_config did ("ok" or the exception it raised)    *)
(* and the entries of the JSON object: <<>> for a missing key, else        *)
(* <<[type, v]>>; v is the value of a number where a number is expected    *)
(* and of a string where a string is expected.                             *)

Str_FEMALE == <<"F", "E", "M", "A", "L", "E">>

ConfigInputs ==
    [load_config : {"ok", "FileNotFoundError", "JSONDecodeError"},
     weight_kg   : Optional([type : {"int"}, v : {0 - 1, 0, 70, 500, 501}]
                            \cup {[type |-> "str", v |-> 0]}),
     age_years   : Optional([type : {"int"}, v : {0, 30, 130, 131}]
                            \cup {[type |-> "str", v |-> 0]}),
     gender      : Optional([type : {"str"},
                             v : {Str_male, Str_FEMALE, Str_FEMALE_padded,
                                  Str_other}]
                            \cup {[type |-> "int", v |-> <<>>]})]

load_user_config(args) ==
    IF args.load_config # "ok" THEN [exc |-> "ConfigError", value |-> <<>>]
    ELSE
    LET weight_ == IF args.weight_kg = <<>> THEN 70
                   ELSE IF args.weight_kg[1].type # "int"
                           \/ args.weight_kg[1].v <= 0 THEN 70
                   ELSE args.weight_kg[1].v
        age_ == IF args.age_years = <<>> THEN 30
                ELSE IF args.age_years[1].type # "int"
                        \/ args.age_years[1].v <= 0 THEN 30
                ELSE args.age_years[1].v
        gender_ == IF args.gender = <<>> THEN Str_male
                   ELSE IF args.gender[1].type # "str"
                           \/ lower(args.gender[1].v) \notin {Str_male, Str_female}
                   THEN Str_male
                   ELSE args.gender[1].v
    IN  [exc |-> "ok",
         value |-> <<[weight_kg |-> weight_, age_years |-> age_,
                      gender |-> lower(gender_)]>>]

ConfigInit ==
    /\ IdleBatch
    /\ f_pc = "call"
    /\ f_args \in ConfigInputs
    /\ f_ret = <<>>
    /\ IdleIntegrator
    /\ IdleExtractor

ConfigCall ==
    /\ f_pc = "call"
    /\ f_pc' = "done"
    /\ f_ret' = load_user_config(f_args)
    /\ UNCHANGED <<f_args, bvars>>
    /\ UNCHANGED <<ivars, xvars>>

ConfigNext == ConfigCall

ConfigSpec == ConfigInit /\ [][ConfigNext]_vars

\* C27: every profile load_user_config returns is accepted by
\* validate_calculation_inputs: weight_kg in (0, 500], age_years in
\* (0, 130], gender male or female.
C27_LoadedProfileIsValid ==
    (f_pc = "done" /\ f_ret.exc = "ok")
        => LET profile == f_ret.value[1]
           IN  /\ validate_calculation_inputs(profile.weight_kg,
                      profile.age_years, profile.gender).ok
               /\ profile.weight_kg > 0 /\ profile.weight_kg <= 500
               /\ profile.age_years > 0 /\ profile.age_years <= 130
               /\ profile.gender \in {Str_male, Str_female}

====
